---- MODULE Spec2Model ----
(***************************************************************************)
(* AIHealthHub: the persistent record store (services/storageService.ts),  *)
(* the encryption codec (utils/encryption.ts), the rate limiter            *)
(* (utils/rateLimiter.ts), the wording of errors (utils/apiUtils.ts) and   *)
(* the query cache policy (hooks/useQuery.tsx).                            *)
(*                                                                         *)
(* Values.  A JavaScript array is a sequence, an object a record.  A       *)
(* timestamp is [kind |-> "Date", ms |-> n] while it is a Date object and  *)
(* [kind |-> "string", ms |-> n] once JSON.stringify has turned it into    *)
(* its ISO string.  A string held by localStorage is a record with a fmt:  *)
(*   "raw"   a bare string such as 'en' or 'false'                         *)
(*   "json"  the text JSON.stringify produced for val                      *)
(*   "other" JSON text of a value that is no record of the store           *)
(*   "aes"   the base64 text CryptoJS.AES.encrypt produced for the text    *)
(*           plain under key                                               *)
(* A character is [letter |-> n, upper |-> b]; a query string is a         *)
(* sequence of characters.                                                 *)
(***************************************************************************)
EXTENDS Integers, Sequences, FiniteSets, TLC

VARIABLES
    storage,      \* localStorage: the keys present -> the string stored
    nextId,       \* the next fresh consultation identity (generateId)
    imports,      \* the number of importData calls so far
    drugFresh,    \* the number of distinct drug names searched so far
    drugRepeats,  \* the number of searches that repeated an earlier name
    lastOp,       \* history: the last operation, its input and its result
    tabs,         \* tab -> where its saveConsultation stands, and what it read
    retrying,     \* the withRetry call under way: its locals and its history
    requestHistory, \* rateLimiter: endpoint -> the timestamps kept for it
    now,          \* Date.now(), in ms
    ticks,        \* the number of times the clock has advanced
    admitted,     \* history: endpoint -> every time a request was admitted
    lastCall,     \* history: the last checkRateLimit call and its outcome
    queries,      \* the query cache: the keys present -> their Query
    fetchFn,      \* history: key -> the calls of its fetch function
    mutation,     \* the mutation last started
    lastRequest   \* history: the last request made of the cache

\* the counters of the store, and the calls under way
storeAux == <<nextId, imports, drugFresh, drugRepeats, tabs, retrying>>

storeVars == <<storage, storeAux, lastOp>>

rateVars == <<requestHistory, now, ticks, admitted, lastCall>>

cacheVars == <<queries, fetchFn, mutation, lastRequest>>

vars == <<storeVars, rateVars, cacheVars>>

----------------------------------------------------------------------------
(* Bounds of the model *)

MaxId == 4

MaxImports == 2

\* saveConsultation calls in the capacity run
MaxSaves == 52

\* the longest transcript handed to saveChatHistory
MaxChatLen == 52

\* distinct drug names, and repeated searches, in the search-history run
MaxDrugNames == 22

MaxDrugRepeats == 1

\* advances of the clock in a run of the rate limiter or of the cache
MaxTicks == 4

\* calls of the fetch functions of the query keys
MaxCalls == 4

\* components observing one query key at a time
MaxObservers == 2

\* requests made of the cache: hooks mounted and prefetches
MaxRequests == 3

\* mutations started
MaxMutations == 1

----------------------------------------------------------------------------
(* Sequences: Array.prototype.slice *)

Min(a, b) == IF a <= b THEN a ELSE b

Max(a, b) == IF a >= b THEN a ELSE b

\* arr.slice(0, n)
SliceHead(arr, n) == SubSeq(arr, 1, Min(n, Len(arr)))

\* arr.slice(-n)
SliceTail(arr, n) == SubSeq(arr, Max(1, Len(arr) - n + 1), Len(arr))

----------------------------------------------------------------------------
(* localStorage *)

HEALTH_PROFILE == "aihealth_profile"
CONSULTATIONS == "aihealth_consultations"
LANGUAGE == "aihealth_language"
DRUG_HISTORY == "aihealth_drug_history"
ENCRYPTION_ENABLED == "aihealth_encryption"

DEFAULT_KEY == "aihealth_default_key_v1"

\* what getItem returns for a key that is not there
Null == [fmt |-> "null"]

getItem(s, k) == IF k \in DOMAIN s THEN s[k] ELSE Null

setItem(s, k, v) == [x \in DOMAIN s \cup {k} |-> IF x = k THEN v ELSE s[x]]

removeItem(s, k) == [x \in DOMAIN s \ {k} |-> s[x]]

RawString(str) == [fmt |-> "raw", val |-> str]

----------------------------------------------------------------------------
(* JSON and the codec *)

\* Date.prototype.toJSON: a Date is written as its ISO string
DateToJSON(t) == [kind |-> "string", ms |-> t.ms]

\* new Date(x) for a Date or an ISO string
NewDate(x) == [kind |-> "Date", ms |-> x.ms]

\* the JSON form of a list whose entries carry a timestamp
ListToJSON(list) ==
    [i \in 1..Len(list) |-> [list[i] EXCEPT !.timestamp = DateToJSON(@)]]

\* the JSON form of a profile
ProfileToJSON(p) == [p EXCEPT !.lastUpdated = DateToJSON(@)]

\* JSON.stringify(v), v already in its JSON form
JSONstringify(v) == [fmt |-> "json", val |-> v]

\* JSON text of a value that is no record of the store: a number, or an
\* object without any of the fields
OtherJSON(shape) == [fmt |-> "other", shape |-> shape]

\* JSON.parse(text): throws on anything that is not JSON text; shape tells
\* a record of the store from another value
JSONparse(text) ==
    CASE text.fmt = "json" ->
             [threw |-> FALSE, shape |-> "record", val |-> text.val]
      [] text.fmt = "other" -> [threw |-> FALSE, shape |-> text.shape]
      [] OTHER -> [threw |-> TRUE]

\* CryptoJS.AES.encrypt(plain, key).toString()
AESencrypt(plain, key) == [fmt |-> "aes", key |-> key, plain |-> plain]

\* encryptData(data, key): CryptoJS.AES.encrypt(JSON.stringify(data), key)
encryptData(v, key) == AESencrypt(JSONstringify(v), key)

\* encryptData(data, key) when something fails inside: JSON.stringify
\* throws on data that do not serialize (a cycle, a BigInt), in the try and
\* again in the catch, whose throw reaches the caller; when only the cipher
\* throws, the catch returns the plain JSON text
encryptDataFailing(v, key, serializes) ==
    IF serializes THEN [threw |-> FALSE, text |-> JSONstringify(v)]
    ELSE [threw |-> TRUE]

\* what the bytes CryptoJS.AES.decrypt makes of a text that is not a
\* ciphertext under the key read as in UTF-8: nothing, a throw (malformed
\* UTF-8), or a text that is not JSON
Garbled == {"empty", "malformed", "text"}

\* CryptoJS.AES.decrypt(text, key).toString(CryptoJS.enc.Utf8)
AESdecrypt(text, key, garbled) ==
    IF text.fmt = "aes" /\ text.key = key
    THEN [threw |-> FALSE, str |-> text.plain]
    ELSE CASE garbled = "empty" -> [threw |-> FALSE, str |-> RawString("")]
           [] garbled = "malformed" -> [threw |-> TRUE]
           [] OTHER -> [threw |-> FALSE, str |-> RawString("?")]

\* what decryptData returns, from a JSON.parse that did not throw
Parsed(r) ==
    IF r.shape = "record"
    THEN [isNull |-> FALSE, shape |-> "record", val |-> r.val]
    ELSE [isNull |-> FALSE, shape |-> r.shape]

\* decryptData without the plain-JSON fallbacks: null whenever the text does
\* not decrypt to JSON
decryptDataWhen_decryptOnly(text, key, garbled) ==
    LET dec == AESdecrypt(text, key, garbled)
        inTry == IF dec.threw THEN [threw |-> TRUE] ELSE JSONparse(dec.str)
    IN  IF ~inTry.threw THEN Parsed(inTry) ELSE [isNull |-> TRUE]

\* decryptData handing back the decrypted string of a text that is no
\* ciphertext, unparsed
decryptDataWhen_unparsed(text, key, garbled) ==
    LET dec == AESdecrypt(text, key, garbled)
        own == JSONparse(text)
        inTry == IF dec.threw THEN [threw |-> TRUE]
                 ELSE IF dec.str = RawString("") THEN own
                 ELSE IF dec.str.fmt = "raw"
                      THEN [threw |-> FALSE, shape |-> "string"]
                 ELSE JSONparse(dec.str)
    IN  IF ~inTry.threw THEN Parsed(inTry)
        ELSE IF ~own.threw THEN Parsed(own)
        ELSE [isNull |-> TRUE]

\* decryptData(encryptedData, key), the bytes of a text that is no
\* ciphertext reading as garbled: the decrypted string parsed; the text
\* itself parsed when that string is empty; in the catch, the text itself
\* parsed, and null when that throws too
decryptDataWhen(text, key, garbled) ==
    LET dec == AESdecrypt(text, key, garbled)
        own == JSONparse(text)
        inTry == IF dec.threw THEN [threw |-> TRUE]
                 ELSE IF dec.str = RawString("") THEN own
                 ELSE JSONparse(dec.str)
    IN  IF ~inTry.threw THEN Parsed(inTry)
        ELSE IF ~own.threw THEN Parsed(own)
        ELSE [isNull |-> TRUE]

\* decryptData(encryptedData, key): however the bytes read
decryptData(text, key) ==
    CHOOSE r \in { decryptDataWhen(text, key, g) : g \in Garbled } : TRUE

----------------------------------------------------------------------------
(* storageService *)

isEncryptionEnabled(s) == getItem(s, ENCRYPTION_ENABLED) # RawString("false")

setEncryptionEnabled(s, enabled) ==
    setItem(s, ENCRYPTION_ENABLED,
            RawString(IF enabled THEN "true" ELSE "false"))

\* what a save writes for the JSON form v
Encode(s, v) ==
    IF isEncryptionEnabled(s) THEN encryptData(v, DEFAULT_KEY)
    ELSE JSONstringify(v)

saveHealthProfile(s, profile) ==
    setItem(s, HEALTH_PROFILE, Encode(s, ProfileToJSON(profile)))

\* the parsed profile handed back as it was parsed
ReviveProfile_asParsed(r) ==
    CASE r.shape = "record" -> r.val
      [] r.shape = "number" -> Null
      [] OTHER -> [lastUpdated |-> "Invalid Date"]

\* profile.lastUpdated = new Date(profile.lastUpdated) on what was parsed:
\* a record of the store has its timestamp made a Date; on a number the
\* assignment throws (module code is strict), which the catch turns into
\* null; another object comes back with an invalid Date for lastUpdated
ReviveProfile(r) ==
    CASE r.shape = "record" -> [r.val EXCEPT !.lastUpdated = NewDate(@)]
      [] r.shape = "number" -> Null
      [] OTHER -> [lastUpdated |-> "Invalid Date"]

\* the profile, or Null
getHealthProfile(s) ==
    LET data == getItem(s, HEALTH_PROFILE) IN
    IF data = Null THEN Null
    ELSE IF isEncryptionEnabled(s)
         THEN LET r == decryptData(data, DEFAULT_KEY) IN
              IF r.isNull THEN Null ELSE ReviveProfile(r)
         ELSE LET r == JSONparse(data) IN
              IF r.threw THEN Null ELSE ReviveProfile(r)

\* entries read back: each timestamp made a Date again
ReviveList(list) ==
    [i \in 1..Len(list) |-> [list[i] EXCEPT !.timestamp = NewDate(@)]]

\* list.map(...) on what was parsed: [] for a value that is no array, map
\* not being a function of it (a TypeError, caught)
MapRevive(r) == IF r.shape = "record" THEN ReviveList(r.val) ELSE <<>>

\* the decoded list under key k, [] when there is none or it cannot be read
getList(s, k) ==
    LET data == getItem(s, k) IN
    IF data = Null THEN <<>>
    ELSE IF isEncryptionEnabled(s)
         THEN LET r == decryptData(data, DEFAULT_KEY) IN
              IF r.isNull THEN <<>> ELSE MapRevive(r)
         ELSE LET r == JSONparse(data) IN
              IF r.threw THEN <<>> ELSE MapRevive(r)

getConsultations(s) == getList(s, CONSULTATIONS)

MaxConsultations == 50

\* the trim keeping the other end of the list
saveConsultation_sliceTail(s, consultation) ==
    LET consultations == <<consultation>> \o getConsultations(s)
        trimmed == SliceTail(consultations, MaxConsultations)
    IN  setItem(s, CONSULTATIONS, Encode(s, ListToJSON(trimmed)))

saveConsultation(s, consultation) ==
    LET consultations == <<consultation>> \o getConsultations(s)
        trimmed == SliceHead(consultations, MaxConsultations)
    IN  setItem(s, CONSULTATIONS, Encode(s, ListToJSON(trimmed)))

\* saveConsultation carried on by a tab that re-reads the collection when it
\* writes
writeConsultations_reread(s, consultations, consultation) ==
    LET trimmed == SliceHead(<<consultation>> \o getConsultations(s),
                             MaxConsultations)
    IN  setItem(s, CONSULTATIONS, Encode(s, ListToJSON(trimmed)))

\* saveConsultation after its first line, consultations being what
\* getConsultations() returned there: unshift, slice, encode, and setItem of
\* the whole collection
writeConsultations(s, consultations, consultation) ==
    LET trimmed == SliceHead(<<consultation>> \o consultations,
                             MaxConsultations)
    IN  setItem(s, CONSULTATIONS, Encode(s, ListToJSON(trimmed)))

clearConsultations(s) == removeItem(s, CONSULTATIONS)

saveLanguage(s, lang) == setItem(s, LANGUAGE, RawString(lang))

getLanguage(s) ==
    IF getItem(s, LANGUAGE) = Null THEN "en" ELSE getItem(s, LANGUAGE).val

\* String.prototype.toLowerCase
toLowerCase(str) == [i \in 1..Len(str) |-> [str[i] EXCEPT !.upper = FALSE]]

\* getDrugHistory() has no try: JSON.parse throws to the caller when the
\* stored text is no JSON
getDrugHistoryThrows(s) ==
    LET data == getItem(s, DRUG_HISTORY) IN
    data # Null /\ JSONparse(data).threw

\* whether what getDrugHistory() returns is an array: any JSON value that
\* was stored is returned as it is
getDrugHistoryIsArray(s) ==
    LET data == getItem(s, DRUG_HISTORY) IN
    data = Null \/ (~JSONparse(data).threw /\ JSONparse(data).shape = "record")

\* the array getDrugHistory() returns
getDrugHistory(s) ==
    IF getItem(s, DRUG_HISTORY) = Null THEN <<>>
    ELSE JSONparse(getItem(s, DRUG_HISTORY)).val

MaxDrugHistory == 20

\* the comparison without toLowerCase
saveDrugSearch_caseSensitive(s, drugName) ==
    LET history == getDrugHistory(s)
        Differs(d) == d # drugName
        filtered == <<drugName>> \o SelectSeq(history, Differs)
        trimmed == SliceHead(filtered, MaxDrugHistory)
    IN  setItem(s, DRUG_HISTORY, JSONstringify(trimmed))

\* whether saveDrugSearch throws: getDrugHistory does, or what it returns
\* has no filter
saveDrugSearchThrows(s) == ~getDrugHistoryIsArray(s)

\* the store after saveDrugSearch(drugName), unchanged when it throws
saveDrugSearch(s, drugName) ==
    IF saveDrugSearchThrows(s) THEN s
    ELSE
    LET history == getDrugHistory(s)
        Differs(d) == toLowerCase(d) # toLowerCase(drugName)
        filtered == <<drugName>> \o SelectSeq(history, Differs)
        trimmed == SliceHead(filtered, MaxDrugHistory)
    IN  setItem(s, DRUG_HISTORY, JSONstringify(trimmed))

clearDrugHistory(s) == removeItem(s, DRUG_HISTORY)

ChatKey(module) == "aihealth_chat_" \o module

MaxChatMessages == 50

\* the trim keeping the head of the transcript
saveChatHistory_sliceHead(s, module, messages) ==
    LET trimmed == SliceHead(messages, MaxChatMessages)
    IN  setItem(s, ChatKey(module), Encode(s, ListToJSON(trimmed)))

saveChatHistory(s, module, messages) ==
    LET trimmed == SliceTail(messages, MaxChatMessages)
    IN  setItem(s, ChatKey(module), Encode(s, ListToJSON(trimmed)))

getChatHistory(s, module) == getList(s, ChatKey(module))

\* String.prototype.startsWith
startsWith(str, prefix) ==
    Len(str) >= Len(prefix) /\ SubSeq(str, 1, Len(prefix)) = prefix

\* clearAllData removing the keys of STORAGE_KEYS only
clearAllData_namedKeys(s) ==
    LET named == {HEALTH_PROFILE, CONSULTATIONS, LANGUAGE, DRUG_HISTORY,
                  ENCRYPTION_ENABLED}
    IN  [k \in DOMAIN s \ named |-> s[k]]

\* clearAllData(): every key of localStorage that starts with 'aihealth_'
\* is removed
clearAllData(s) ==
    LET kept == { k \in DOMAIN s : ~startsWith(k, "aihealth_") }
    IN  [k \in kept |-> s[k]]

\* saveConsultation for each entry of items, first to last (forEach)
RECURSIVE saveConsultations(_, _)
saveConsultations(s, items) ==
    IF items = <<>> THEN s
    ELSE saveConsultations(saveConsultation(s, Head(items)), Tail(items))

\* saveDrugSearch for each entry of items, first to last (forEach)
RECURSIVE saveDrugSearches(_, _)
saveDrugSearches(s, items) ==
    IF items = <<>> THEN s
    ELSE saveDrugSearches(saveDrugSearch(s, Head(items)), Tail(items))

\* A field of a parsed payload is falsy when it is missing
Truthy(field) == field.kind # "absent"

\* importData(jsonString): [ok, storage]; the writes made before a throw stay.
\* A field that is not an array has no forEach: calling it throws a TypeError,
\* which the catch turns into false.
importData(s, payload) ==
    IF ~payload.parses THEN [ok |-> FALSE, storage |-> s]
    ELSE
    LET data == payload.data
        s1 == IF Truthy(data.healthProfile)
              THEN saveHealthProfile(s, data.healthProfile.val) ELSE s
        s2 == IF Truthy(data.consultations)
              THEN saveConsultations(s1, data.consultations.items) ELSE s1
        s3 == IF Truthy(data.drugHistory)
              THEN saveDrugSearches(s2, data.drugHistory.items) ELSE s2
        s4 == IF Truthy(data.language)
              THEN saveLanguage(s3, data.language.val) ELSE s3
    IN  IF Truthy(data.consultations) /\ data.consultations.kind # "array"
        THEN [ok |-> FALSE, storage |-> s1]
        ELSE IF Truthy(data.drugHistory) /\ data.drugHistory.kind # "array"
        THEN [ok |-> FALSE, storage |-> s2]
        ELSE IF Truthy(data.drugHistory) /\ data.drugHistory.items # <<>>
                /\ saveDrugSearchThrows(s2)
        THEN [ok |-> FALSE, storage |-> s2]
        ELSE [ok |-> TRUE, storage |-> s4]

----------------------------------------------------------------------------
(* rateLimiter *)

\* a table whose default allows ten requests
RATE_LIMITS_defaultTen(endpoint) ==
    CASE endpoint = "drug-analysis" -> [maxRequests |-> 10, windowMs |-> 60000]
      [] endpoint = "symptom-analysis" -> [maxRequests |-> 5, windowMs |-> 60000]
      [] endpoint = "diet" -> [maxRequests |-> 5, windowMs |-> 60000]
      [] endpoint = "diet-plan" -> [maxRequests |-> 3, windowMs |-> 60000]
      [] endpoint = "second-opinion" -> [maxRequests |-> 3, windowMs |-> 60000]
      [] endpoint = "chat" -> [maxRequests |-> 20, windowMs |-> 60000]
      [] OTHER -> [maxRequests |-> 10, windowMs |-> 60000]

\* RATE_LIMITS[endpoint] || RATE_LIMITS.default
RATE_LIMITS(endpoint) ==
    CASE endpoint = "drug-analysis" -> [maxRequests |-> 10, windowMs |-> 60000]
      [] endpoint = "symptom-analysis" -> [maxRequests |-> 5, windowMs |-> 60000]
      [] endpoint = "diet" -> [maxRequests |-> 5, windowMs |-> 60000]
      [] endpoint = "diet-plan" -> [maxRequests |-> 3, windowMs |-> 60000]
      [] endpoint = "second-opinion" -> [maxRequests |-> 3, windowMs |-> 60000]
      [] endpoint = "chat" -> [maxRequests |-> 20, windowMs |-> 60000]
      [] OTHER -> [maxRequests |-> 30, windowMs |-> 60000]

\* requestHistory.get(endpoint) || []
HistoryOf(h, endpoint) == IF endpoint \in DOMAIN h THEN h[endpoint] ELSE <<>>

\* requestHistory.set(endpoint, history)
MapSet(h, endpoint, history) ==
    [e \in DOMAIN h \cup {endpoint} |-> IF e = endpoint THEN history ELSE h[e]]

\* history.filter(timestamp => timestamp > windowStart)
InWindow(history, windowStart) ==
    LET Recent(timestamp) == timestamp > windowStart
    IN  SelectSeq(history, Recent)

\* rounding down instead
Ceil_floor(x, d) == x \div d

\* Math.ceil(x / d) for integers x and d > 0
Ceil(x, d) == -((-x) \div d)

\* the request recorded before the limit is checked
checkRateLimit_pushFirst(h, endpoint, t) ==
    LET config == RATE_LIMITS(endpoint)
        windowStart == t - config.windowMs
        history == InWindow(HistoryOf(h, endpoint), windowStart)
    IN  IF Len(history) >= config.maxRequests
        THEN [threw |-> TRUE,
              remainingTime |->
                  Ceil(history[1] + config.windowMs - t, 1000),
              requestHistory |-> MapSet(h, endpoint, Append(history, t))]
        ELSE [threw |-> FALSE,
              remainingTime |-> 0,
              requestHistory |-> MapSet(h, endpoint, Append(history, t))]

\* one history for all the names that have no entry in RATE_LIMITS
checkRateLimit_sharedDefault(h, endpoint, t) ==
    LET config == RATE_LIMITS(endpoint)
        key == IF config = RATE_LIMITS("default") THEN "default" ELSE endpoint
        windowStart == t - config.windowMs
        history == InWindow(HistoryOf(h, key), windowStart)
    IN  IF Len(history) >= config.maxRequests
        THEN [threw |-> TRUE,
              remainingTime |->
                  Ceil(history[1] + config.windowMs - t, 1000),
              requestHistory |-> h]
        ELSE [threw |-> FALSE,
              remainingTime |-> 0,
              requestHistory |-> MapSet(h, key, Append(history, t))]

\* the filter keeping a timestamp that is exactly one window old
checkRateLimit_inclusiveWindow(h, endpoint, t) ==
    LET config == RATE_LIMITS(endpoint)
        windowStart == t - config.windowMs
        Recent(timestamp) == timestamp >= windowStart
        history == SelectSeq(HistoryOf(h, endpoint), Recent)
    IN  IF Len(history) >= config.maxRequests
        THEN [threw |-> TRUE,
              remainingTime |->
                  Ceil(history[1] + config.windowMs - t, 1000),
              requestHistory |-> h]
        ELSE [threw |-> FALSE,
              remainingTime |-> 0,
              requestHistory |-> MapSet(h, endpoint, Append(history, t))]

\* checkRateLimit(endpoint) at time t: whether it throws, the remainingTime
\* of the RateLimitError, and the map afterwards
checkRateLimit(h, endpoint, t) ==
    LET config == RATE_LIMITS(endpoint)
        windowStart == t - config.windowMs
        history == InWindow(HistoryOf(h, endpoint), windowStart)
    IN  IF Len(history) >= config.maxRequests
        THEN [threw |-> TRUE,
              remainingTime |->
                  Ceil(history[1] + config.windowMs - t, 1000),
              requestHistory |-> h]
        ELSE [threw |-> FALSE,
              remainingTime |-> 0,
              requestHistory |-> MapSet(h, endpoint, Append(history, t))]

\* getRemainingRequests(endpoint) at time t
getRemainingRequests(h, endpoint, t) ==
    LET config == RATE_LIMITS(endpoint)
        windowStart == t - config.windowMs
        recentRequests == InWindow(HistoryOf(h, endpoint), windowStart)
    IN  Max(0, config.maxRequests - Len(recentRequests))

\* the test asking for more requests than the maximum
getTimeUntilReset_above(h, endpoint, t) ==
    LET config == RATE_LIMITS(endpoint)
        windowStart == t - config.windowMs
        recentRequests == InWindow(HistoryOf(h, endpoint), windowStart)
    IN  IF Len(recentRequests) > config.maxRequests /\ Len(recentRequests) > 0
        THEN recentRequests[1] + config.windowMs - t
        ELSE 0

\* getTimeUntilReset(endpoint) at time t, in milliseconds
getTimeUntilReset(h, endpoint, t) ==
    LET config == RATE_LIMITS(endpoint)
        windowStart == t - config.windowMs
        recentRequests == InWindow(HistoryOf(h, endpoint), windowStart)
    IN  IF Len(recentRequests) >= config.maxRequests /\ Len(recentRequests) > 0
        THEN recentRequests[1] + config.windowMs - t
        ELSE 0

InitRate ==
    /\ requestHistory = <<>>
    /\ now = 0
    /\ ticks = 0
    /\ admitted = <<>>
    /\ lastCall = [endpoint |-> "", at |-> 0, threw |-> FALSE,
                   remainingTime |-> 0]

\* time passes
Tick(d) ==
    /\ ticks < MaxTicks
    /\ ticks' = ticks + 1
    /\ now' = now + d
    /\ UNCHANGED <<requestHistory, admitted, lastCall>>

CheckRateLimit(endpoint) ==
    LET r == checkRateLimit(requestHistory, endpoint, now) IN
    /\ requestHistory' = r.requestHistory
    /\ admitted' = IF r.threw THEN admitted
                   ELSE MapSet(admitted, endpoint,
                               Append(HistoryOf(admitted, endpoint), now))
    /\ lastCall' = [endpoint |-> endpoint, at |-> now, threw |-> r.threw,
                    remainingTime |-> r.remainingTime]
    /\ UNCHANGED <<now, ticks>>

\* checkRateLimit(endpoint) now, the map and the outcome of the call alone
Admit(endpoint) ==
    LET r == checkRateLimit(requestHistory, endpoint, now) IN
    /\ requestHistory' = r.requestHistory
    /\ lastCall' = [endpoint |-> endpoint, at |-> now, threw |-> r.threw,
                    remainingTime |-> r.remainingTime]
    /\ UNCHANGED <<now, ticks, admitted>>

\* getRemainingRequests(endpoint) now: the map is read, nothing is written
GetRemainingRequests(endpoint) ==
    /\ lastOp' = [op |-> "getRemainingRequests", ok |-> TRUE,
                  endpoint |-> endpoint,
                  returns |->
                      getRemainingRequests(requestHistory, endpoint, now)]
    /\ UNCHANGED rateVars

\* getTimeUntilReset(endpoint) now: the map is read, nothing is written
GetTimeUntilReset(endpoint) ==
    /\ lastOp' = [op |-> "getTimeUntilReset", ok |-> TRUE,
                  endpoint |-> endpoint,
                  returns |-> getTimeUntilReset(requestHistory, endpoint, now)]
    /\ UNCHANGED rateVars

----------------------------------------------------------------------------
(* apiUtils: what an error is shown as.  A message is the sequence of its   *)
(* pieces, a piece a text or a number written in decimal; the texts looked  *)
(* for are pieces of their own.  The Telugu strings are transliterated.     *)

Str(str) == [str |-> str]
Num(n) == [num |-> n]

\* new Error(message)
Error(message) == [isError |-> TRUE, name |-> "Error", message |-> message]

\* a thrown value that is no Error: a string, an object
Thrown(message) == [isError |-> FALSE, name |-> "", message |-> message]

\* new RateLimitError(`Too many requests. Please wait ${remainingTime}
\* seconds.`, remainingTime)
RateLimitError(remainingTime) ==
    [isError |-> TRUE, name |-> "RateLimitError",
     message |-> <<Str("Too many requests. Please wait "), Num(remainingTime),
                   Str(" seconds.")>>,
     remainingTime |-> remainingTime]

\* getModel() without a key
MissingKeyError ==
    Error(<<Str("API key"),
            Str(" is not configured. Please set VITE_GEMINI_API_KEY in your environment variables.")>>)

\* whether the decimal digits of n hold 429
RECURSIVE Has429(_)
Has429(n) == n >= 429 /\ (n % 1000 = 429 \/ Has429(n \div 10))

\* String.prototype.toLowerCase on a piece
LowerCase(piece) ==
    CASE piece = Str("Rate limit") -> Str("rate limit")
      [] piece = Str("Rate Limit") -> Str("rate limit")
      [] piece = Str("RATE LIMIT") -> Str("rate limit")
      [] OTHER -> piece

\* message.includes('429')
Includes429(message) ==
    \E i \in 1..Len(message) :
        \/ message[i] = Str("429")
        \/ "num" \in DOMAIN message[i] /\ Has429(message[i].num)

\* message.includes(text), text having no digit
Includes(message, text) == \E i \in 1..Len(message) : message[i] = Str(text)

\* message.toLowerCase().includes(text)
LowerCaseIncludes(message, text) ==
    \E i \in 1..Len(message) : LowerCase(message[i]) = Str(text)

isRateLimitError(error) ==
    IF error.isError
    THEN Includes429(error.message)
         \/ LowerCaseIncludes(error.message, "rate limit")
    ELSE FALSE

PleaseWait(language) ==
    IF language = "te"
    THEN "dayachesi konni sekanlu vechi undi malli prayatninchandi."
    ELSE "Please wait a few seconds and try again."

NotConfigured(language) ==
    IF language = "te" THEN "API ki configure cheyabadaledu."
    ELSE "API key is not configured."

Generic(language) ==
    IF language = "te" THEN "dayachesi malli prayatninchandi."
    ELSE "An error occurred. Please try again."

\* the test looking for 'API Key'
getErrorMessage_keyCapitalised(error, language) ==
    IF isRateLimitError(error) THEN PleaseWait(language)
    ELSE IF error.isError /\ Includes(error.message, "API Key")
         THEN NotConfigured(language)
    ELSE Generic(language)

getErrorMessage(error, language) ==
    IF isRateLimitError(error) THEN PleaseWait(language)
    ELSE IF error.isError /\ Includes(error.message, "API key")
         THEN NotConfigured(language)
    ELSE Generic(language)

----------------------------------------------------------------------------
(* useQuery: the query client and the hooks.  The options and the query     *)
(* keys are those of hooks/useQuery.tsx.  What the client does with them is *)
(* @tanstack/react-query 5: one Query per key, a fetch that is joined while *)
(* it is pending, a retryer per fetch, a garbage-collection timer per       *)
(* Query.  A value is the number of the queryFn call that produced it; 0    *)
(* is undefined.  A timer is the set of its deadline, empty when not set.   *)

\* defaultOptions.queries.staleTime
staleTime == 5 * 60 * 1000

\* retention of an hour instead
gcTime_hour == 60 * 60 * 1000

\* defaultOptions.queries.gcTime
gcTime == 30 * 60 * 1000

\* one retry more
retry_three == 2 + 1

\* defaultOptions.queries.retry
retry == 2

\* defaultOptions.queries.retryDelay
retryDelay(attemptIndex) == Min(1000 * 2^attemptIndex, 10000)

\* defaultOptions.mutations.retry
mutations_retry == 1

\* defaultOptions.mutations has no retryDelay: the client's own default
mutations_retryDelay(failureCount) == Min(1000 * 2^failureCount, 30000)

\* the options of each hook; endpoint is the class its queryFn hands to
\* checkRateLimit, "" where the queryFn does not call it
useDrugAnalysis(drugName, language) ==
    [queryKey |-> <<"drug", toLowerCase(drugName), language>>,
     endpoint |-> "drug-analysis",
     enabled |-> Len(drugName) > 0,
     staleTime |-> staleTime]

usePancreatitisDiet(language, enabled) ==
    [queryKey |-> <<"pancreatitis-diet", language>>,
     endpoint |-> "diet",
     enabled |-> enabled,
     staleTime |-> 60 * 60 * 1000]

usePrefetchDiet(language) ==
    [queryKey |-> <<"pancreatitis-diet", language>>,
     endpoint |-> "",
     enabled |-> TRUE,
     staleTime |-> staleTime]

\* the mutation hooks; onSuccess is the key setQueryData writes, <<>> for none
useSymptomAnalysis(symptoms, language) ==
    [endpoint |-> "symptom-analysis",
     variables |-> [symptoms |-> symptoms, language |-> language],
     onSuccess |-> <<"symptoms", SliceHead(symptoms, 50), language>>]

useSecondOpinion == [endpoint |-> "second-opinion", onSuccess |-> <<>>]

useDietPlan == [endpoint |-> "diet-plan", onSuccess |-> <<>>]

\* a Query as the cache builds it at time t: no data, idle, unobserved, its
\* garbage collection scheduled.  invocations, awaiting, failedAt,
\* unusedSince and dataBefore are history: the queryFn calls of the last
\* fetch, the callers waiting for it, when its last attempt failed, since
\* when the Query has been idle and unobserved, the data before the fetch
NewQuery(t) ==
    [data |-> 0, dataUpdatedAt |-> 0, status |-> "pending",
     fetchStatus |-> "idle", fetchFailureCount |-> 0, retryAt |-> {},
     isRetryCancelled |-> FALSE, observers |-> 0, gcAt |-> {t + gcTime},
     endpoint |-> "", invocations |-> 0, awaiting |-> 0, failedAt |-> 0,
     unusedSince |-> t, dataBefore |-> 0]

\* queryCache.build: the Query of the key, a new one if there is none
QueryOf(qs, k, t) == IF k \in DOMAIN qs THEN qs[k] ELSE NewQuery(t)

PutQuery(qs, k, q) ==
    [x \in DOMAIN qs \cup {k} |-> IF x = k THEN q ELSE qs[x]]

RemoveQuery(qs, k) == [x \in DOMAIN qs \ {k} |-> qs[x]]

\* the calls of the fetch function of a key so far, and those whose
\* promise has not settled
NoCalls == [calls |-> 0, inFlight |-> 0]

CallsOf(f, k) == IF k \in DOMAIN f THEN f[k] ELSE NoCalls

Called(f, k, inFlight) ==
    [x \in DOMAIN f \cup {k} |->
        IF x = k THEN [calls |-> CallsOf(f, k).calls + 1,
                       inFlight |-> CallsOf(f, k).inFlight + inFlight]
        ELSE f[x]]

Settled(f, k) == [f EXCEPT ![k].inFlight = @ - 1]

RECURSIVE SumCalls(_, _)
SumCalls(f, keys) ==
    IF keys = {} THEN 0
    ELSE LET k == CHOOSE x \in keys : TRUE
         IN  f[k].calls + SumCalls(f, keys \ {k})

\* the calls of every fetch function so far
TotalCalls(f) == SumCalls(f, DOMAIN f)

\* query.isStaleByTime(staleTime) at time t
isStaleByTime(q, st, t) == q.data = 0 \/ t >= q.dataUpdatedAt + st

\* the retryer gives up at time t: the fetch ends in error, the data stay,
\* the garbage collection is scheduled
Rejected(q, t) ==
    [q EXCEPT !.status = "error", !.fetchStatus = "idle",
              !.fetchFailureCount = @ + 1, !.retryAt = {},
              !.failedAt = 0, !.awaiting = 0, !.gcAt = {t + gcTime},
              !.unusedSince = t]

\* an attempt of the retryer fails at time t: another one after
\* retryDelay(failureCount) while failureCount < retry and the retry has not
\* been cancelled
Failed(q, t) ==
    IF q.fetchFailureCount < retry /\ ~q.isRetryCancelled
    THEN [q EXCEPT !.fetchFailureCount = @ + 1,
                   !.retryAt = {t + retryDelay(q.fetchFailureCount)},
                   !.failedAt = t]
    ELSE Rejected(q, t)

\* an attempt succeeds at time t with value v
Resolved(q, v, t) ==
    [q EXCEPT !.data = v, !.dataUpdatedAt = t, !.status = "success",
              !.fetchStatus = "idle", !.fetchFailureCount = 0,
              !.failedAt = 0, !.awaiting = 0, !.gcAt = {t + gcTime},
              !.unusedSince = t]

NoRequest ==
    [n |-> 0, op |-> "", queryKey |-> <<>>, at |-> 0,
     cached |-> FALSE, data |-> 0, dataUpdatedAt |-> 0, status |-> "",
     fetchStatus |-> "", invoked |-> FALSE]

NoMutation ==
    [hook |-> useDietPlan, status |-> "idle", failureCount |-> 0,
     retryAt |-> {}, invocations |-> 0, inFlight |-> FALSE, failedAt |-> 0,
     count |-> 0]

InitCache ==
    /\ queries = <<>>
    /\ fetchFn = <<>>
    /\ mutation = NoMutation
    /\ lastRequest = NoRequest

\* what a request for the key of a hook found, and whether it called the
\* fetch function
Requested(op, hook) ==
    LET k == hook.queryKey
        q == QueryOf(queries, k, now)
    IN  /\ lastRequest.n < MaxRequests
        /\ lastRequest' =
            [n |-> lastRequest.n + 1, op |-> op, queryKey |-> k, at |-> now,
             cached |-> k \in DOMAIN queries,
             data |-> q.data, dataUpdatedAt |-> q.dataUpdatedAt,
             status |-> q.status, fetchStatus |-> q.fetchStatus,
             invoked |-> CallsOf(fetchFn', k).calls
                             > CallsOf(fetchFn, k).calls]

\* the queryFn of Query q of key k is called: checkRateLimit where the hook
\* has it, a throw of which fails the attempt at once, then the gateway call
RunQueryFn(k, q) ==
    LET called == [q EXCEPT !.invocations = @ + 1] IN
    /\ TotalCalls(fetchFn) < MaxCalls
    /\ IF q.endpoint # ""
       THEN LET r == checkRateLimit(requestHistory, q.endpoint, now) IN
            /\ requestHistory' = r.requestHistory
            /\ IF r.threw
               THEN /\ queries' = PutQuery(queries, k, Failed(called, now))
                    /\ fetchFn' = Called(fetchFn, k, 0)
               ELSE /\ queries' = PutQuery(queries, k, called)
                    /\ fetchFn' = Called(fetchFn, k, 1)
            /\ UNCHANGED <<now, ticks, admitted, lastCall>>
       ELSE /\ queries' = PutQuery(queries, k, called)
            /\ fetchFn' = Called(fetchFn, k, 1)
            /\ UNCHANGED rateVars

\* query.fetch(options): a pending fetch is joined, its retry continued;
\* an idle Query starts one with the queryFn of the caller
Fetch(k, q, hook) ==
    IF q.fetchStatus # "idle"
    THEN /\ queries' = PutQuery(queries, k,
                           [q EXCEPT !.isRetryCancelled = FALSE,
                                     !.awaiting = @ + 1])
         /\ UNCHANGED <<fetchFn, rateVars>>
    ELSE RunQueryFn(k, [q EXCEPT !.fetchStatus = "fetching",
                                 !.fetchFailureCount = 0,
                                 !.isRetryCancelled = FALSE,
                                 !.endpoint = hook.endpoint,
                                 !.invocations = 0,
                                 !.awaiting = 1,
                                 !.dataBefore = q.data])

\* the prefetch calling the gateway itself
Prefetch_direct(hook) ==
    /\ TotalCalls(fetchFn) < MaxCalls
    /\ fetchFn' = Called(fetchFn, hook.queryKey, 1)
    /\ Requested("prefetchQuery", hook)
    /\ UNCHANGED <<queries, mutation, rateVars>>

\* a component calling useQuery with the options of the hook mounts: its
\* observer subscribes, and fetches when there is no data or the data are
\* stale for the hook
Mount(hook) ==
    LET k == hook.queryKey
        q == QueryOf(queries, k, now)
        observed == [q EXCEPT !.observers = @ + 1, !.gcAt = {},
                              !.unusedSince = 0]
    IN  /\ q.observers < MaxObservers
        /\ IF hook.enabled /\ isStaleByTime(q, hook.staleTime, now)
           THEN Fetch(k, observed, hook)
           ELSE /\ queries' = PutQuery(queries, k, observed)
                /\ UNCHANGED <<fetchFn, rateVars>>
        /\ Requested("useQuery", hook)
        /\ UNCHANGED mutation

\* the component unmounts: the last observer to leave cancels the retry of
\* the retryer (a fetch starts with a new retryer) and schedules the
\* garbage collection
Unmount(k) ==
    /\ k \in DOMAIN queries
    /\ queries[k].observers > 0
    /\ LET q == queries[k] IN
       queries' = PutQuery(queries, k,
           IF q.observers = 1
           THEN [q EXCEPT !.observers = 0,
                          !.isRetryCancelled = TRUE,
                          !.gcAt = {now + gcTime},
                          !.unusedSince = now]
           ELSE [q EXCEPT !.observers = @ - 1])
    /\ UNCHANGED <<fetchFn, mutation, lastRequest, rateVars>>

\* the callback of usePrefetchDiet: qc.prefetchQuery
Prefetch(hook) ==
    LET k == hook.queryKey
        q == QueryOf(queries, k, now)
    IN  /\ IF isStaleByTime(q, hook.staleTime, now)
           THEN Fetch(k, q, hook)
           ELSE /\ queries' = PutQuery(queries, k, q)
                /\ UNCHANGED <<fetchFn, rateVars>>
        /\ Requested("prefetchQuery", hook)
        /\ UNCHANGED mutation

\* the gateway call of the pending fetch of key k resolves
GatewayResolves(k) ==
    /\ k \in DOMAIN queries
    /\ queries[k].fetchStatus = "fetching"
    /\ queries[k].retryAt = {}
    /\ CallsOf(fetchFn, k).inFlight > 0
    /\ queries' = PutQuery(queries, k,
                      Resolved(queries[k], CallsOf(fetchFn, k).calls, now))
    /\ fetchFn' = Settled(fetchFn, k)
    /\ UNCHANGED <<mutation, lastRequest, rateVars>>

\* the gateway call of the pending fetch of key k rejects
GatewayRejects(k) ==
    /\ k \in DOMAIN queries
    /\ queries[k].fetchStatus = "fetching"
    /\ queries[k].retryAt = {}
    /\ CallsOf(fetchFn, k).inFlight > 0
    /\ queries' = PutQuery(queries, k, Failed(queries[k], now))
    /\ fetchFn' = Settled(fetchFn, k)
    /\ UNCHANGED <<mutation, lastRequest, rateVars>>

Due(timer) == timer # {} /\ \A deadline \in timer : now >= deadline

\* the sleep before a retry ends: the queryFn is called again, unless the
\* retry was cancelled meanwhile
RetryTimer(k) ==
    /\ k \in DOMAIN queries
    /\ Due(queries[k].retryAt)
    /\ IF queries[k].isRetryCancelled
       THEN /\ queries' = PutQuery(queries, k, Rejected(queries[k], now))
            /\ UNCHANGED <<fetchFn, rateVars>>
       ELSE RunQueryFn(k, [queries[k] EXCEPT !.retryAt = {},
                                             !.failedAt = 0])
    /\ UNCHANGED <<mutation, lastRequest>>

\* the garbage-collection timer of a Query fires: the Query is removed if
\* it is idle and has no observer
GcTimer(k) ==
    /\ k \in DOMAIN queries
    /\ Due(queries[k].gcAt)
    /\ queries' =
           IF queries[k].observers = 0 /\ queries[k].fetchStatus = "idle"
           THEN RemoveQuery(queries, k)
           ELSE PutQuery(queries, k, [queries[k] EXCEPT !.gcAt = {}])
    /\ UNCHANGED <<fetchFn, mutation, lastRequest, rateVars>>

\* an attempt of a mutation fails at time t: one retry, then the error
MutationFailed(m, t) ==
    IF m.failureCount < mutations_retry
    THEN [m EXCEPT !.failureCount = @ + 1,
                   !.retryAt = {t + mutations_retryDelay(m.failureCount)},
                   !.failedAt = t,
                   !.inFlight = FALSE]
    ELSE [m EXCEPT !.status = "error", !.failureCount = @ + 1,
                   !.inFlight = FALSE]

\* the mutationFn of mutation m is called: checkRateLimit, then the gateway
RunMutationFn(m) ==
    LET called == [m EXCEPT !.invocations = @ + 1]
        r == checkRateLimit(requestHistory, m.hook.endpoint, now)
    IN
    /\ requestHistory' = r.requestHistory
    /\ mutation' = IF r.threw THEN MutationFailed(called, now)
                   ELSE [called EXCEPT !.inFlight = TRUE]
    /\ UNCHANGED <<now, ticks, admitted, lastCall>>

\* mutate(variables) of a mutation hook
Mutate(hook) ==
    /\ mutation.status # "pending"
    /\ mutation.count < MaxMutations
    /\ RunMutationFn([NoMutation EXCEPT !.hook = hook,
                                        !.status = "pending",
                                        !.count = mutation.count + 1])
    /\ UNCHANGED <<queries, fetchFn, lastRequest>>

\* qc.setQueryData(k, v) at time t
setQueryData(qs, k, v, t) ==
    PutQuery(qs, k, [QueryOf(qs, k, t) EXCEPT !.data = v,
                                              !.dataUpdatedAt = t,
                                              !.status = "success"])

\* the gateway call of the mutation resolves: onSuccess
MutationResolves ==
    /\ mutation.inFlight
    /\ mutation' = [mutation EXCEPT !.status = "success", !.inFlight = FALSE]
    /\ queries' = IF mutation.hook.onSuccess # <<>>
                  THEN setQueryData(queries, mutation.hook.onSuccess,
                                    mutation.count, now)
                  ELSE queries
    /\ UNCHANGED <<fetchFn, lastRequest, rateVars>>

\* the gateway call of the mutation rejects
MutationRejects ==
    /\ mutation.inFlight
    /\ mutation' = MutationFailed(mutation, now)
    /\ UNCHANGED <<queries, fetchFn, lastRequest, rateVars>>

\* the sleep before the retry of the mutation ends
MutationRetryTimer ==
    /\ Due(mutation.retryAt)
    /\ RunMutationFn([mutation EXCEPT !.retryAt = {}])
    /\ UNCHANGED <<queries, fetchFn, lastRequest>>

\* the deadlines of the timers that are set
Deadlines ==
    UNION { queries[k].retryAt \cup queries[k].gcAt : k \in DOMAIN queries }
        \cup mutation.retryAt

\* time passes, and no timer is left behind: a timer fires when it is due
Elapse(d) ==
    /\ d > 0
    /\ \A deadline \in Deadlines : now + d <= deadline
    /\ Tick(d)
    /\ UNCHANGED cacheVars

----------------------------------------------------------------------------
(* Inputs *)

Date(n) == [kind |-> "Date", ms |-> n]

\* a consultation created now: identity from generateId, timestamp new Date()
Consultation(n) == [id |-> n, timestamp |-> Date(n)]

Char(n, u) == [letter |-> n, upper |-> u]

\* the one-letter query string
Query(n, u) == <<Char(n, u)>>

Profiles ==
    { [age |-> 34, weight |-> 70, height |-> 175, lastUpdated |-> Date(1)] }

Languages == {"en", "te"}

Queries == {Query(1, FALSE), Query(1, TRUE)}

\* fields of an import payload
Absent == [kind |-> "absent"]
ArrayOf(items) == [kind |-> "array", items |-> items]
ObjectOf(val) == [kind |-> "object", val |-> val]
StringOf(val) == [kind |-> "string", val |-> val]
NumberField == [kind |-> "number"]

Payload(hp, cs, dh, lang) ==
    [parses |-> TRUE,
     data |-> [healthProfile |-> hp, consultations |-> cs,
               drugHistory |-> dh, language |-> lang]]

ExportedProfile ==
    ProfileToJSON([age |-> 45, weight |-> 90, height |-> 180,
                   lastUpdated |-> Date(3)])

ExportedConsultations == ListToJSON(<<Consultation(2), Consultation(1)>>)

ExportedDrugHistory == <<Query(2, TRUE), Query(1, FALSE)>>

\* the texts handed to importData: not JSON at all; a snapshot as exportAllData
\* writes it; an empty object; and objects whose consultations or drugHistory
\* is not a list
Payloads ==
    { [parses |-> FALSE],
      Payload(ObjectOf(ExportedProfile), ArrayOf(ExportedConsultations),
              ArrayOf(ExportedDrugHistory), StringOf("te")),
      Payload(Absent, Absent, Absent, Absent),
      Payload(ObjectOf(ExportedProfile), NumberField, Absent, StringOf("te")),
      Payload(ObjectOf(ExportedProfile), ArrayOf(ExportedConsultations),
              NumberField, StringOf("te")),
      Payload(Absent, Absent, ObjectOf(ExportedProfile), Absent) }

----------------------------------------------------------------------------
(* Operations of the store *)

\* the tabs open on the origin
Tabs == {1, 2}

\* a tab outside saveConsultation
Idle == [pc |-> "idle", consultations |-> <<>>, missed |-> <<>>, saves |-> 0]

NoTabs == [t \in Tabs |-> Idle]

\* let lastError: Error | null = null
NullError == 0

\* no withRetry call yet
NoRetry ==
    [pc |-> "none", args |-> [maxRetries |-> 0, delayMs |-> 0],
     maxRetries |-> 0, delayMs |-> 0, attempt |-> 0,
     calls |-> <<>>, waits |-> <<>>, lastError |-> NullError, result |-> 0]

\* nothing done yet
InitAux ==
    /\ nextId = 1
    /\ imports = 0
    /\ drugFresh = 0
    /\ drugRepeats = 0
    /\ lastOp = [op |-> "init", ok |-> TRUE]
    /\ tabs = NoTabs
    /\ retrying = NoRetry

\* an empty localStorage
InitStore == storage = <<>> /\ InitAux /\ InitRate /\ InitCache

\* Each operation below acts on localStorage alone; the counters that bound
\* a run are moved by the next-state relations.

Did(op) == [op |-> op, ok |-> TRUE]

SetEncryptionEnabled(enabled) ==
    /\ storage' = setEncryptionEnabled(storage, enabled)
    /\ lastOp' = Did("setEncryptionEnabled")

SaveHealthProfile(profile) ==
    /\ storage' = saveHealthProfile(storage, profile)
    /\ lastOp' = [op |-> "saveHealthProfile", ok |-> TRUE,
                  profile |-> profile]

SaveConsultation(consultation) ==
    /\ storage' = saveConsultation(storage, consultation)
    /\ lastOp' = Did("saveConsultation")

ClearConsultations ==
    /\ storage' = clearConsultations(storage)
    /\ lastOp' = Did("clearConsultations")

SaveLanguage(lang) ==
    /\ storage' = saveLanguage(storage, lang)
    /\ lastOp' = Did("saveLanguage")

SaveDrugSearch(drugName) ==
    /\ storage' = saveDrugSearch(storage, drugName)
    /\ lastOp' = [op |-> "saveDrugSearch",
                  ok |-> ~saveDrugSearchThrows(storage),
                  drugName |-> drugName,
                  before |-> IF saveDrugSearchThrows(storage) THEN <<>>
                             ELSE getDrugHistory(storage)]

ClearDrugHistory ==
    /\ storage' = clearDrugHistory(storage)
    /\ lastOp' = Did("clearDrugHistory")

SaveChatHistory(module, messages) ==
    /\ storage' = saveChatHistory(storage, module, messages)
    /\ lastOp' = [op |-> "saveChatHistory", ok |-> TRUE,
                  module |-> module, messages |-> messages]

ImportData(payload) ==
    /\ storage' = importData(storage, payload).storage
    /\ lastOp' = [op |-> "importData", ok |-> importData(storage, payload).ok]

----------------------------------------------------------------------------
(* The store under every operation, on small inputs *)

\* nothing else moves
Rest == UNCHANGED <<storeAux, rateVars, cacheVars>>

\* a consultation just created: a fresh identity
SaveNewConsultation ==
    /\ SaveConsultation(Consultation(nextId))
    /\ nextId' = nextId + 1
    /\ UNCHANGED <<imports, drugFresh, drugRepeats, tabs, retrying,
                 rateVars,
                 cacheVars>>

Import(payload) ==
    /\ imports < MaxImports
    /\ ImportData(payload)
    /\ imports' = imports + 1
    /\ UNCHANGED <<nextId, drugFresh, drugRepeats, tabs, retrying,
                 rateVars,
                 cacheVars>>

Next ==
    \/ \E b \in BOOLEAN : SetEncryptionEnabled(b) /\ Rest
    \/ \E p \in Profiles : SaveHealthProfile(p) /\ Rest
    \/ nextId <= MaxId /\ SaveNewConsultation
    \/ ClearConsultations /\ Rest
    \/ \E l \in Languages : SaveLanguage(l) /\ Rest
    \/ \E q \in Queries : SaveDrugSearch(q) /\ Rest
    \/ ClearDrugHistory /\ Rest
    \/ \E p \in Payloads : Import(p)

Init == InitStore

Spec == Init /\ [][Next]_vars

----------------------------------------------------------------------------
(* Capacity of the consultation collection: successive saves on an empty   *)
(* store, under each encryption setting                                    *)

\* the setting never written, written true, written false
EncryptionSettings ==
    { <<>>, setEncryptionEnabled(<<>>, TRUE), setEncryptionEnabled(<<>>, FALSE) }

InitSetting ==
    storage \in EncryptionSettings /\ InitAux /\ InitRate /\ InitCache

NextConsultations == nextId <= MaxSaves /\ SaveNewConsultation

SpecConsultations == InitSetting /\ [][NextConsultations]_vars

----------------------------------------------------------------------------
(* Chat transcripts: saveChatHistory of transcripts of every length, for   *)
(* two modules, the encryption setting toggled in between                  *)

Modules == {"pancreatitis", "healthpro"}

Message(n) ==
    [id |-> n, role |-> IF n % 2 = 1 THEN "user" ELSE "assistant",
     content |-> n, timestamp |-> Date(n)]

\* the transcript of n messages, oldest first
Transcript(n) == [i \in 1..n |-> Message(i)]

\* short transcripts, and those around the capacity
ChatLengths == (0..2) \cup ((MaxChatMessages - 1)..MaxChatLen)

NextChat ==
    \/ \E m \in Modules, n \in ChatLengths :
          SaveChatHistory(m, Transcript(n)) /\ Rest
    \/ \E b \in BOOLEAN : SetEncryptionEnabled(b) /\ Rest

SpecChat == InitStore /\ [][NextChat]_vars

----------------------------------------------------------------------------
(* Search history: new drug names one after the other, and repeats of a    *)
(* name of the history in either letter case                               *)

\* a name never searched before
SearchNew ==
    /\ drugFresh < MaxDrugNames
    /\ drugFresh' = drugFresh + 1
    /\ SaveDrugSearch(Query(drugFresh + 1, FALSE))

\* the places of a history of n names a repeated name is taken from: its two
\* ends, their neighbours and the middle
RepeatPositions(n) == {1, 2, (n + 1) \div 2, n - 1, n} \cap (1..n)

\* a name of the history again, in lower or in upper case
SearchAgain ==
    /\ drugRepeats < MaxDrugRepeats
    /\ drugRepeats' = drugRepeats + 1
    /\ \E i \in RepeatPositions(Len(getDrugHistory(storage))), u \in BOOLEAN :
          SaveDrugSearch(Query(getDrugHistory(storage)[i][1].letter, u))

NextDrug ==
    \/ SearchNew /\ UNCHANGED <<nextId, imports, drugRepeats, tabs, retrying,
                 rateVars,
                 cacheVars>>
    \/ SearchAgain /\ UNCHANGED <<nextId, imports, drugFresh, tabs, retrying,
                 rateVars,
                 cacheVars>>

SpecDrug == InitStore /\ [][NextDrug]_vars

----------------------------------------------------------------------------
(* The codec on texts of every kind, and the store over texts it did not   *)
(* write: localStorage is shared by all scripts of the origin and open to  *)
(* the user, so a key may hold any string                                  *)

\* bounds of the codec runs
MaxProfiles == 3
MaxStored == 2

OTHER_KEY == "another key"

Keys == {DEFAULT_KEY, OTHER_KEY}

CodecProfiles ==
    { [age |-> 30 + n, weight |-> 70, height |-> 175,
       lastUpdated |-> Date(n)] : n \in 1..MaxProfiles }

CodecLists ==
    { <<>>, <<Consultation(1)>>, <<Consultation(2), Consultation(1)>>,
      Transcript(1), Transcript(2) }

\* texts that are no JSON
NotJSON == {RawString(""), RawString("{")}

\* JSON texts of values that are no record of the store
WrongShape == {OtherJSON("number"), OtherJSON("object")}

\* the serialized value, and its ciphertext under each key
TextsOf(v) ==
    {JSONstringify(v)} \cup { encryptData(v, key) : key \in Keys }

\* texts holding no record: no JSON, JSON of another shape, and ciphertexts
\* of those
NoRecordTexts ==
    NotJSON \cup WrongShape
    \cup { AESencrypt(plain, key) : plain \in NotJSON \cup WrongShape,
                                    key \in Keys }

\* texts a key of the store may be found to hold that cannot be decoded
\* into its record: no JSON, JSON of another shape, a ciphertext under
\* another key
Undecodable ==
    {RawString("{")} \cup WrongShape
    \cup {AESencrypt(JSONstringify(<<>>), OTHER_KEY)}

\* encryptData(data, key), remembered with its inputs
EncryptData(v, key) ==
    /\ storage = <<>>
    /\ lastOp' = [op |-> "encryptData", ok |-> TRUE, data |-> v, key |-> key,
                  text |-> encryptData(v, key)]
    /\ UNCHANGED storage

\* encryptData(data, key) with a failure inside: the data do not
\* serialize, or they do and the cipher throws
EncryptDataFailing(v, key, serializes) ==
    /\ storage = <<>>
    /\ lastOp' = [op |-> "encryptData", ok |-> FALSE, data |-> v, key |-> key,
                  serializes |-> serializes,
                  result |-> encryptDataFailing(v, key, serializes)]
    /\ UNCHANGED storage

\* decryptData(text, key): what it returns, for every reading of the bytes
DecryptData(text, key) ==
    /\ storage = <<>>
    /\ lastOp' = [op |-> "decryptData", ok |-> TRUE, text |-> text,
                  key |-> key,
                  returns |-> { decryptDataWhen(text, key, g) : g \in Garbled }]
    /\ UNCHANGED storage

\* something other than the store writes text under key k
SetItem(k, text) ==
    /\ storage' = setItem(storage, k, text)
    /\ lastOp' = [op |-> "setItem", ok |-> TRUE, key |-> k]

StoreKeys == {HEALTH_PROFILE, CONSULTATIONS, DRUG_HISTORY, ChatKey("healthpro")}

NextCodec ==
    \/ \E p \in CodecProfiles, key \in Keys :
           EncryptData(ProfileToJSON(p), key) /\ Rest
    \/ \E l \in CodecLists, key \in Keys :
           EncryptData(ListToJSON(l), key) /\ Rest
    \/ \E p \in CodecProfiles, key \in Keys, serializes \in BOOLEAN :
           EncryptDataFailing(ProfileToJSON(p), key, serializes) /\ Rest
    \/ \E p \in CodecProfiles, key \in Keys :
           \E text \in TextsOf(ProfileToJSON(p)) : DecryptData(text, key) /\ Rest
    \/ \E l \in CodecLists, key \in Keys :
           \E text \in TextsOf(ListToJSON(l)) : DecryptData(text, key) /\ Rest
    \/ \E text \in NoRecordTexts, key \in Keys : DecryptData(text, key) /\ Rest
    \/ \E b \in BOOLEAN : SetEncryptionEnabled(b) /\ Rest
    \/ \E p \in CodecProfiles : SaveHealthProfile(p) /\ Rest
    \/ nextId <= MaxStored /\ SaveNewConsultation
    \/ SaveChatHistory("healthpro", Transcript(MaxStored)) /\ Rest
    \/ SaveDrugSearch(Query(1, FALSE)) /\ Rest
    \/ \E k \in StoreKeys, text \in Undecodable : SetItem(k, text) /\ Rest

SpecCodec == InitStore /\ [][NextCodec]_vars

----------------------------------------------------------------------------
(* The whole-store reset: the store filled by its own operations, keys of  *)
(* other scripts of the origin next to them, then clearAllData             *)

\* keys that do not start with 'aihealth_'
OtherKeys == {"theme", "aihealth"}

ClearAllData ==
    /\ storage' = clearAllData(storage)
    /\ lastOp' = [op |-> "clearAllData", ok |-> TRUE, before |-> storage]

NextClear ==
    \/ SetEncryptionEnabled(FALSE) /\ Rest
    \/ \E p \in Profiles : SaveHealthProfile(p) /\ Rest
    \/ nextId <= MaxStored /\ SaveNewConsultation
    \/ SaveLanguage("te") /\ Rest
    \/ SaveDrugSearch(Query(1, FALSE)) /\ Rest
    \/ \E m \in Modules : SaveChatHistory(m, Transcript(1)) /\ Rest
    \/ \E k \in OtherKeys : SetItem(k, RawString("dark")) /\ Rest
    \/ ClearAllData /\ Rest

SpecClear == InitStore /\ [][NextClear]_vars

----------------------------------------------------------------------------
(* Properties of the store *)

\* three consultations are stored as a ciphertext and encryption is now off
ThreeEncryptedThenDisabled ==
    /\ CONSULTATIONS \in DOMAIN storage
    /\ storage[CONSULTATIONS].fmt = "aes"
    /\ Len(storage[CONSULTATIONS].plain.val) = 3
    /\ ~isEncryptionEnabled(storage)

\* C1: once encryption is disabled with 3 encrypted consultations stored,
\* getConsultations still returns the 3 in their order, and the next
\* saveConsultation stores the new entry followed by the 3, as plain JSON.
C1_DisablingEncryptionKeepsConsultations ==
    [][ThreeEncryptedThenDisabled =>
          LET old == ReviveList(storage[CONSULTATIONS].plain.val) IN
          /\ getConsultations(storage) = old
          /\ \A c \in {Consultation(nextId)} :
                SaveConsultation(c) =>
                    storage'[CONSULTATIONS] =
                        JSONstringify(ListToJSON(<<c>> \o old))]_vars

\* the payload does not parse, or its consultations or drugHistory is there
\* and is not a list
InvalidPayload(p) ==
    \/ ~p.parses
    \/ p.data.consultations.kind \notin {"absent", "array"}
    \/ p.data.drugHistory.kind \notin {"absent", "array"}

\* what the store holds, as its readers return it
Records(s) ==
    <<getHealthProfile(s), getConsultations(s), getDrugHistory(s),
      getLanguage(s)>>

\* C2: importData of an invalid payload returns false and leaves the
\* profile, the consultations, the search history and the language as they
\* were.
C2_InvalidImportChangesNothing ==
    [][\A p \in Payloads :
          (InvalidPayload(p) /\ ImportData(p)) =>
              /\ lastOp'.ok = FALSE
              /\ Records(storage') = Records(storage)]_vars

\* C3: after N saveConsultation calls on an empty store, the setting
\* unchanged, getConsultations returns the min(N, 50) last saved, newest
\* first.
C3_NewestFiftyKept ==
    LET n == nextId - 1 IN
    getConsultations(storage) =
        [i \in 1..Min(n, 50) |-> Consultation(n + 1 - i)]

C3_Overflowed == nextId - 1 > 50 /\ Len(getConsultations(storage)) = 50

\* C4: the search history never holds more than 20 entries nor two entries
\* equal ignoring case; a saved query is first; saving a query the history
\* holds (ignoring case) does not change its length.
C4_SearchHistoryDeduplicated ==
    LET h == getDrugHistory(storage)
        low == [i \in 1..Len(h) |-> toLowerCase(h[i])]
    IN  /\ Len(h) <= 20
        /\ \A i, j \in 1..Len(h) : i < j => low[i] # low[j]
        /\ lastOp.op = "saveDrugSearch" =>
              /\ h[1] = lastOp.drugName
              /\ (\E i \in 1..Len(lastOp.before) :
                     toLowerCase(lastOp.before[i])
                         = toLowerCase(lastOp.drugName))
                 => Len(h) = Len(lastOp.before)

\* a name of a full history was searched again in upper case
C4_RepeatedAtCapacity ==
    /\ lastOp.op = "saveDrugSearch"
    /\ drugRepeats > 0
    /\ Len(getDrugHistory(storage)) = 20
    /\ getDrugHistory(storage)[1][1].upper

\* C5: getChatHistory after saveChatHistory(module, messages) returns the
\* last min(n, 50) messages in their order.
C5_ChatKeepsTail ==
    lastOp.op = "saveChatHistory" =>
        LET n == Len(lastOp.messages)
            k == Min(n, 50)
        IN  getChatHistory(storage, lastOp.module) =
                [i \in 1..k |-> lastOp.messages[n - k + i]]

C5_Truncated ==
    /\ lastOp.op = "saveChatHistory"
    /\ Len(lastOp.messages) > 50
    /\ Len(getChatHistory(storage, lastOp.module)) = 50

\* C23: the identities of the consultations of the collection are pairwise
\* distinct, after any saves and imports
C23_ConsultationIdsDistinct ==
    LET list == getConsultations(storage) IN
    \A i, j \in 1..Len(list) : list[i].id = list[j].id => i = j

----------------------------------------------------------------------------
(* The rate limiter under a clock that never runs backwards *)

Endpoints == {"symptom-analysis"}

\* the clock moves by 1 ms, by 1 s, or to 1 ms before a window's length
TickSteps == {1, 1000, 59999}

NextRate ==
    \/ \E d \in TickSteps : Tick(d) /\ UNCHANGED <<storeVars, cacheVars>>
    \/ \E e \in Endpoints : CheckRateLimit(e) /\ UNCHANGED <<storeVars, cacheVars>>

SpecRate == InitStore /\ [][NextRate]_vars

----------------------------------------------------------------------------
(* The query cache under a clock that leaves no timer behind *)

\* the drug name in either letter case, in one language
DrugHooks == { useDrugAnalysis(q, "en") : q \in Queries }

DietHooks == { usePancreatitisDiet("en", TRUE) }

PrefetchHooks == { usePrefetchDiet("en") }

MutationHooks == { useSymptomAnalysis(Query(1, FALSE), "en") }

QueryKeys ==
    { hook.queryKey : hook \in DrugHooks \cup DietHooks \cup PrefetchHooks }

\* the clock moves to the next deadline, of any timer or of a retry
ToDeadline == { deadline - now : deadline \in Deadlines }

ToRetry ==
    { deadline - now :
        deadline \in UNION { queries[k].retryAt : k \in DOMAIN queries }
                         \cup mutation.retryAt }

\* no other key than that of the hook has been fetched
Only(hook) == \A k \in DOMAIN fetchFn : k = hook.queryKey

\* requests meeting pending fetches: components mounting and unmounting
\* the two query hooks, the prefetch, the gateway resolving or rejecting,
\* the clock moving from retry to retry
NextCache ==
    \/ \E hook \in DrugHooks \cup DietHooks :
          Mount(hook) /\ UNCHANGED storeVars
    \/ \E k \in QueryKeys : Unmount(k) /\ UNCHANGED storeVars
    \/ \E hook \in PrefetchHooks : Prefetch(hook) /\ UNCHANGED storeVars
    \/ \E k \in QueryKeys : GatewayResolves(k) /\ UNCHANGED storeVars
    \/ \E k \in QueryKeys : GatewayRejects(k) /\ UNCHANGED storeVars
    \/ \E k \in QueryKeys : RetryTimer(k) /\ UNCHANGED storeVars
    \/ \E d \in ToRetry : Elapse(d) /\ UNCHANGED storeVars

SpecCache == InitStore /\ [][NextCache]_vars

\* a value of one key growing old: no failure of the gateway, the clock
\* moving by 1 min, by 4 min, or to the next deadline
NextRetention ==
    \/ \E hook \in DrugHooks \cup DietHooks :
          Only(hook) /\ Mount(hook) /\ UNCHANGED storeVars
    \/ \E k \in QueryKeys : Unmount(k) /\ UNCHANGED storeVars
    \/ \E hook \in PrefetchHooks :
          Only(hook) /\ Prefetch(hook) /\ UNCHANGED storeVars
    \/ \E k \in QueryKeys : GatewayResolves(k) /\ UNCHANGED storeVars
    \/ \E k \in QueryKeys : GcTimer(k) /\ UNCHANGED storeVars
    \/ \E d \in {60000, 240000} \cup ToDeadline :
          Elapse(d) /\ UNCHANGED storeVars

SpecRetention == InitStore /\ [][NextRetention]_vars

\* a gateway that may fail: either the diet hook and the prefetch, or a
\* mutation, the clock moving to the next deadline
NextRetry ==
    \/ \E hook \in DietHooks :
          mutation.count = 0 /\ Mount(hook) /\ UNCHANGED storeVars
    \/ \E k \in QueryKeys : Unmount(k) /\ UNCHANGED storeVars
    \/ \E hook \in PrefetchHooks :
          mutation.count = 0 /\ Prefetch(hook) /\ UNCHANGED storeVars
    \/ \E k \in QueryKeys : GatewayResolves(k) /\ UNCHANGED storeVars
    \/ \E k \in QueryKeys : GatewayRejects(k) /\ UNCHANGED storeVars
    \/ \E k \in QueryKeys : RetryTimer(k) /\ UNCHANGED storeVars
    \/ \E k \in DOMAIN queries : GcTimer(k) /\ UNCHANGED storeVars
    \/ \E hook \in MutationHooks :
          lastRequest.n = 0 /\ Mutate(hook) /\ UNCHANGED storeVars
    \/ MutationResolves /\ UNCHANGED storeVars
    \/ MutationRejects /\ UNCHANGED storeVars
    \/ MutationRetryTimer /\ UNCHANGED storeVars
    \/ \E d \in ToDeadline : Elapse(d) /\ UNCHANGED storeVars

SpecRetry == InitStore /\ [][NextRetry]_vars

----------------------------------------------------------------------------
(* Errors shown: the rejections of the rate limiter and the other failures *)
(* of a request, handed to getErrorMessage in either language              *)

\* failures of a request: no key, the service answering 429 or naming its
\* rate limit, the network, a message holding both texts, one naming the
\* key in capitals only, and thrown values that are no Error
Errors ==
    { MissingKeyError,
      Error(<<Str("[GoogleGenerativeAI Error]: ["), Str("429"),
              Str(" Too Many Requests]")>>),
      Error(<<Str("Rate limit"), Str(" exceeded")>>),
      Error(<<Str("Failed to fetch")>>),
      Error(<<Str("429"), Str(": "), Str("API key"), Str(" quota")>>),
      Error(<<Str("Missing VITE_GEMINI_API_KEY")>>),
      Error(<<>>),
      Thrown(<<Str("API key"), Str(" missing")>>),
      Thrown(<<Str("429")>>) }

GetErrorMessage(error, language) ==
    /\ lastOp' = [op |-> "getErrorMessage", ok |-> TRUE, error |-> error,
                  language |-> language,
                  returns |-> getErrorMessage(error, language)]
    /\ UNCHANGED <<storage, storeAux, rateVars, cacheVars>>

\* the RateLimitError checkRateLimit has just thrown, shown
ShowRejection(language) ==
    /\ lastCall.threw
    /\ GetErrorMessage(RateLimitError(lastCall.remainingTime), language)

\* the class of three requests a minute, the clock moving by seconds
NextErrors ==
    \/ Tick(1000) /\ UNCHANGED <<storeVars, cacheVars>>
    \/ CheckRateLimit("diet-plan") /\ UNCHANGED <<storeVars, cacheVars>>
    \/ \E error \in Errors, l \in Languages : GetErrorMessage(error, l)
    \/ \E l \in Languages : ShowRejection(l)

SpecErrors == InitStore /\ [][NextErrors]_vars

----------------------------------------------------------------------------
(* Quotas: two classes of the table, the clock moving by half a window or  *)
(* to its last millisecond, the quota read in between                      *)

QuotaClasses == {"diet-plan", "second-opinion"}

NextQuota ==
    \/ \E d \in {30000, 59999} :
           Tick(d) /\ UNCHANGED <<storeVars, cacheVars>>
    \/ \E e \in QuotaClasses :
           Admit(e) /\ UNCHANGED <<storeVars, cacheVars>>
    \/ \E e \in QuotaClasses :
           GetRemainingRequests(e) /\ UNCHANGED <<storage, storeAux, cacheVars>>
    \/ \E e \in QuotaClasses :
           GetTimeUntilReset(e) /\ UNCHANGED <<storage, storeAux, cacheVars>>

SpecQuota == InitStore /\ [][NextQuota]_vars

----------------------------------------------------------------------------
(* The default policy: a class the table does not have, the clock moving   *)
(* by half a window                                                        *)

UNCONFIGURED == "export"

NextDefault ==
    \/ Tick(30000) /\ UNCHANGED <<storeVars, cacheVars>>
    \/ Admit(UNCONFIGURED) /\ UNCHANGED <<storeVars, cacheVars>>
    \/ GetRemainingRequests(UNCONFIGURED)
           /\ UNCHANGED <<storage, storeAux, cacheVars>>
    \/ GetTimeUntilReset(UNCONFIGURED)
           /\ UNCHANGED <<storage, storeAux, cacheVars>>

SpecDefault == InitStore /\ [][NextDefault]_vars

----------------------------------------------------------------------------
(* A build without VITE_GEMINI_API_KEY: getModel() throws in every gateway *)
(* function, so each call of the gateway rejects and none resolves         *)

NextConfig ==
    \/ \E hook \in DietHooks :
          mutation.count = 0 /\ Mount(hook) /\ UNCHANGED storeVars
    \/ \E k \in QueryKeys : Unmount(k) /\ UNCHANGED storeVars
    \/ \E k \in QueryKeys : GatewayRejects(k) /\ UNCHANGED storeVars
    \/ \E k \in QueryKeys : RetryTimer(k) /\ UNCHANGED storeVars
    \/ \E hook \in MutationHooks :
          lastRequest.n = 0 /\ Mutate(hook) /\ UNCHANGED storeVars
    \/ MutationRejects /\ UNCHANGED storeVars
    \/ MutationRetryTimer /\ UNCHANGED storeVars
    \/ \E d \in ToDeadline : Elapse(d) /\ UNCHANGED storeVars

SpecConfig == InitStore /\ [][NextConfig]_vars

----------------------------------------------------------------------------
(* Cache keys: drug lookups in either letter case and language, symptom    *)
(* analyses of short descriptions and of long ones that begin alike        *)

\* the length substring(0, 50) cuts a description to
KeyTextLength == 50

\* a description of KeyTextLength letters and one more
LongDescription(last) ==
    [i \in 1..(KeyTextLength + 1) |->
        IF i <= KeyTextLength THEN Char(1, FALSE) ELSE Char(last, FALSE)]

Descriptions ==
    { Query(1, FALSE), Query(2, FALSE), LongDescription(1), LongDescription(2) }

SymptomHooks ==
    { useSymptomAnalysis(d, l) : d \in Descriptions, l \in Languages }

LookupHooks == { useDrugAnalysis(q, l) : q \in Queries, l \in Languages }

NextKeys ==
    \/ \E hook \in LookupHooks : Mount(hook) /\ UNCHANGED storeVars
    \/ \E hook \in LookupHooks :
          GatewayResolves(hook.queryKey) /\ UNCHANGED storeVars
    \/ \E hook \in SymptomHooks : Mutate(hook) /\ UNCHANGED storeVars
    \/ MutationResolves /\ UNCHANGED storeVars
    \/ MutationRejects /\ UNCHANGED storeVars
    \/ MutationRetryTimer /\ UNCHANGED storeVars
    \/ \E d \in ToRetry : Elapse(d) /\ UNCHANGED storeVars

SpecKeys == InitStore /\ [][NextKeys]_vars

----------------------------------------------------------------------------
(* Properties of the rate limiter *)

\* the admissions of the last call's endpoint that preceded the call
PriorAdmissions ==
    LET a == HistoryOf(admitted, lastCall.endpoint) IN
    IF lastCall.threw \/ a = <<>> THEN a ELSE SubSeq(a, 1, Len(a) - 1)

\* the admissions less than a window before the last call
LiveAdmissions(windowMs) ==
    { PriorAdmissions[i] : i \in
        { j \in 1..Len(PriorAdmissions) :
            PriorAdmissions[j] > lastCall.at - windowMs } }

\* C6: with 5 requests per 60000 ms, a call is admitted while fewer than 5
\* requests were admitted in the 60000 ms before it (so the first 5 are,
\* and so is a call made once the earliest has left the window), and is
\* rejected with remainingTime > 0 when 5 were.
C6_FivePerWindow ==
    lastCall.endpoint = "symptom-analysis" =>
        LET n == Cardinality({ j \in 1..Len(PriorAdmissions) :
                                 PriorAdmissions[j] > lastCall.at - 60000 })
        IN  /\ n < 5 => ~lastCall.threw
            /\ n >= 5 => lastCall.threw /\ lastCall.remainingTime > 0

\* a sixth request was admitted, after the window of the first had passed
C6_AdmittedAgain ==
    /\ lastCall.endpoint = "symptom-analysis"
    /\ ~lastCall.threw
    /\ Len(HistoryOf(admitted, "symptom-analysis")) = 6
    /\ lastCall.at >= 60000

\* C7: a rejection carries ceil((oldest + windowMs - now) / 1000), oldest
\* being the earliest admission still in the window; the value lies in
\* 1..windowMs/1000, and that many seconds later the oldest admission is no
\* longer in the window.
C7_RetryAfter ==
    lastCall.threw =>
        LET windowMs == RATE_LIMITS(lastCall.endpoint).windowMs
            live == LiveAdmissions(windowMs)
            oldest == CHOOSE t \in live : \A u \in live : t <= u
            wait == oldest + windowMs - lastCall.at
            r == lastCall.remainingTime
        IN  /\ live # {}
            /\ 1000 * r >= wait /\ 1000 * (r - 1) < wait
            /\ 1 <= r /\ 1000 * r <= windowMs
            /\ ~(oldest > lastCall.at + 1000 * r - windowMs)

\* a rejection 1 ms before the oldest admission leaves the window
C7_RejectedLastMillisecond ==
    /\ lastCall.threw
    /\ lastCall.remainingTime = 1
    /\ lastCall.at = 59999

----------------------------------------------------------------------------
(* Properties of the query cache *)

\* C8: no key ever has more than one call of its fetch function in flight;
\* a pending fetch has made one call per attempt however many callers wait
\* for it, a request that finds a fetch pending calls nothing, and the
\* value the callers read is the one that call resolved with; a request
\* that finds its own key idle and without data calls the fetch function
\* whatever the other keys are doing.
C8_OneFetchInFlightPerKey ==
    /\ \A k \in DOMAIN fetchFn : fetchFn[k].inFlight <= 1
    /\ \A k \in DOMAIN queries :
          LET q == queries[k]
              running == IF q.retryAt = {} THEN 1 ELSE 0
          IN  /\ q.fetchStatus = "fetching" =>
                    /\ q.awaiting >= 1
                    /\ q.invocations = q.fetchFailureCount + running
                    /\ CallsOf(fetchFn, k).inFlight = running
              /\ q.fetchStatus = "idle" /\ q.status = "success" =>
                    q.data = CallsOf(fetchFn, k).calls
    /\ lastRequest.fetchStatus = "fetching" => ~lastRequest.invoked
    /\ lastRequest.fetchStatus = "idle" /\ lastRequest.data = 0 =>
          lastRequest.invoked

\* two callers wait for the one call made for a key while the fetch of
\* another key is in flight
C8_TwoCallersOneCall ==
    \E k \in DOMAIN queries : \E other \in DOMAIN queries :
        /\ k # other
        /\ queries[k].fetchStatus = "fetching"
        /\ queries[k].awaiting >= 2
        /\ fetchFn[k] = [calls |-> 1, inFlight |-> 1]
        /\ fetchFn[other].inFlight = 1

C10_BoundedRetriesNothingCached ==
    /\ \A k \in DOMAIN queries :
          LET q == queries[k] IN
          /\ q.invocations <= 3
          /\ q.retryAt # {} =>
                \E n \in 0..1 :
                    /\ q.invocations = n + 1
                    /\ q.retryAt = {q.failedAt + Min(1000 * 2^n, 10000)}
          /\ q.status = "error" /\ q.fetchStatus = "idle" =>
                /\ q.data = q.dataBefore
                /\ q.invocations >= 1
                /\ ~q.isRetryCancelled => q.invocations = 3
    /\ mutation.invocations <= 2
    /\ mutation.retryAt # {} =>
          /\ mutation.invocations = 1
          /\ mutation.retryAt = {mutation.failedAt + 1000}
    /\ mutation.status = "error" => mutation.invocations = 2
    /\ lastRequest.status = "error" /\ lastRequest.fetchStatus = "idle"
            /\ lastRequest.data = 0 =>
          lastRequest.invoked

\* a fetch failed three times, 1000 and 2000 ms apart, and the next
\* request called the fetch function again
C10_FailedThriceThenFetchedAgain ==
    /\ lastRequest.status = "error"
    /\ lastRequest.data = 0
    /\ lastRequest.at = 3000
    /\ lastRequest.invoked
    /\ fetchFn[lastRequest.queryKey].calls = 4

----------------------------------------------------------------------------
(* Properties of the codec and of the store over any text *)

\* what decryptData returns for a text that decodes to the JSON form v
Returned(v) == [isNull |-> FALSE, shape |-> "record", val |-> v]

PlainAt(k) == k \in DOMAIN storage /\ storage[k].fmt = "json"

\* C12: decryptData of the plain JSON text of a record returns that record;
\* so with encryption enabled getHealthProfile, getConsultations and
\* getChatHistory return the records a key holds in plain text
C12_PlainTextReadWhenEnabled ==
    /\ (lastOp.op = "decryptData" /\ lastOp.text.fmt = "json") =>
           lastOp.returns = {Returned(lastOp.text.val)}
    /\ isEncryptionEnabled(storage) =>
           /\ PlainAt(HEALTH_PROFILE) =>
                  getHealthProfile(storage)
                      = [storage[HEALTH_PROFILE].val
                             EXCEPT !.lastUpdated = NewDate(@)]
           /\ PlainAt(CONSULTATIONS) =>
                  getConsultations(storage)
                      = ReviveList(storage[CONSULTATIONS].val)
           /\ PlainAt(ChatKey("healthpro")) =>
                  getChatHistory(storage, "healthpro")
                      = ReviveList(storage[ChatKey("healthpro")].val)

\* two consultations, a profile and a transcript saved in plain text, read
\* once encryption is enabled
C12_PlainRecordsUnderEnabledFlag ==
    /\ isEncryptionEnabled(storage)
    /\ PlainAt(HEALTH_PROFILE)
    /\ PlainAt(CONSULTATIONS)
    /\ PlainAt(ChatKey("healthpro"))
    /\ Len(getConsultations(storage)) = 2
    /\ Len(getChatHistory(storage, "healthpro")) = MaxStored
    /\ getHealthProfile(storage).age = 31

\* text is JSON
ValidJSON(text) == text.fmt \in {"json", "other"}

\* text is JSON, or a ciphertext of JSON under key
Decodes(text, key) ==
    \/ ValidJSON(text)
    \/ text.fmt = "aes" /\ text.key = key /\ ValidJSON(text.plain)

\* C13: decryptData returns for every text and key, whatever the bytes read
\* as, and returns null when the text is neither a ciphertext of JSON under
\* the key nor JSON itself
C13_DecryptDataNullNeverThrows ==
    lastOp.op = "decryptData" =>
        /\ \A r \in lastOp.returns : r.isNull \in BOOLEAN
        /\ ~Decodes(lastOp.text, lastOp.key) =>
               lastOp.returns = {[isNull |-> TRUE]}

\* the ciphertext of a profile under another key, decrypted to null
C13_WrongKeyGivesNull ==
    /\ lastOp.op = "decryptData"
    /\ lastOp.key = DEFAULT_KEY
    /\ lastOp.text.fmt = "aes"
    /\ lastOp.text.key = OTHER_KEY
    /\ lastOp.text.plain.fmt = "json"
    /\ lastOp.returns = {[isNull |-> TRUE]}

\* key k holds a text that does not decode into a record of the store
CorruptAt(k) ==
    /\ k \in DOMAIN storage
    /\ \/ storage[k].fmt \in {"raw", "other"}
       \/ storage[k].fmt = "aes" /\ storage[k].key # DEFAULT_KEY

\* the getters that catch: an undecodable text reads as no data
CaughtReadsAsEmpty ==
    /\ CorruptAt(CONSULTATIONS) => getConsultations(storage) = <<>>
    /\ CorruptAt(ChatKey("healthpro")) =>
           getChatHistory(storage, "healthpro") = <<>>

\* C14: no list operation throws to its caller, and over a text that cannot
\* be decoded getConsultations, getChatHistory and getDrugHistory return the
\* empty list and getHealthProfile returns null
C14_UndecodableReadsAsEmpty ==
    /\ ~getDrugHistoryThrows(storage)
    /\ CorruptAt(DRUG_HISTORY) =>
           getDrugHistoryIsArray(storage) /\ getDrugHistory(storage) = <<>>
    /\ CaughtReadsAsEmpty
    /\ CorruptAt(HEALTH_PROFILE) => getHealthProfile(storage) = Null

\* C22: encryptData does not throw: when something fails inside it
\* returns the plain JSON text of the data
C22_EncryptDataNeverThrows ==
    (lastOp.op = "encryptData" /\ ~lastOp.ok) =>
        /\ ~lastOp.result.threw
        /\ lastOp.result.text = JSONstringify(lastOp.data)

----------------------------------------------------------------------------
(* Properties of the errors shown *)

\* C15: the RateLimitError thrown by checkRateLimit is shown by
\* getErrorMessage as the "please wait" message of the language asked for
C15_RejectionShownAsPleaseWait ==
    (lastOp.op = "getErrorMessage" /\ lastOp.error.name = "RateLimitError") =>
        lastOp.returns = PleaseWait(lastOp.language)

\* C16: for every error value and either language getErrorMessage returns
\* one of the three fixed strings of that language, and the error of
\* getModel without a key is shown as the "not configured" string
C16_OneOfThreeMessages ==
    lastOp.op = "getErrorMessage" =>
        /\ lastOp.returns \in { PleaseWait(lastOp.language),
                                 NotConfigured(lastOp.language),
                                 Generic(lastOp.language) }
        /\ lastOp.error = MissingKeyError =>
               lastOp.returns = NotConfigured(lastOp.language)

\* the missing-key error shown in Telugu
C16_MissingKeyShownInTelugu ==
    /\ lastOp.op = "getErrorMessage"
    /\ lastOp.error = MissingKeyError
    /\ lastOp.language = "te"
    /\ lastOp.returns = NotConfigured("te")

----------------------------------------------------------------------------
(* Properties of the whole-store reset *)

\* C17: after clearAllData() no key starting with 'aihealth_' is left, so
\* every getter answers as on an empty store, and every other key holds the
\* value it held
C17_ClearAllDataRemovesPrefixOnly ==
    lastOp.op = "clearAllData" =>
        /\ \A k \in DOMAIN storage : ~startsWith(k, "aihealth_")
        /\ \A k \in DOMAIN lastOp.before :
               ~startsWith(k, "aihealth_") =>
                   k \in DOMAIN storage /\ storage[k] = lastOp.before[k]
        /\ DOMAIN storage \subseteq DOMAIN lastOp.before
        /\ getHealthProfile(storage) = Null
        /\ getConsultations(storage) = <<>>
        /\ getDrugHistory(storage) = <<>>
        /\ \A m \in Modules : getChatHistory(storage, m) = <<>>
        /\ getLanguage(storage) = "en"
        /\ isEncryptionEnabled(storage)

\* a store holding every kind of record, both transcripts, the language,
\* the flag and two keys of others, cleared
C17_FullStoreCleared ==
    /\ lastOp.op = "clearAllData"
    /\ DOMAIN lastOp.before =
           {HEALTH_PROFILE, CONSULTATIONS, LANGUAGE, DRUG_HISTORY,
            ENCRYPTION_ENABLED, ChatKey("pancreatitis"), ChatKey("healthpro")}
           \cup OtherKeys
    /\ DOMAIN storage = OtherKeys

----------------------------------------------------------------------------
(* Properties of the quotas *)

\* the number of requests of a class recorded less than windowMs before t
Recorded(endpoint, windowMs, t) ==
    LET h == HistoryOf(requestHistory, endpoint) IN
    Cardinality({ i \in 1..Len(h) : h[i] > t - windowMs })

QuotaRead ==
    /\ lastOp' # lastOp
    /\ lastOp'.op \in {"getRemainingRequests", "getTimeUntilReset"}

\* C19: getRemainingRequests and getTimeUntilReset leave the limiter as it
\* was; getRemainingRequests returns maxRequests less the requests in the
\* window, at least 0, and 0 exactly when checkRateLimit would reject at
\* that instant; getTimeUntilReset is above 0 exactly then and 0 otherwise
C19_QuotaReadsAgreeWithAdmission ==
    [][QuotaRead =>
        LET e == lastOp'.endpoint
            config == RATE_LIMITS(e)
            rejects == checkRateLimit(requestHistory, e, now).threw
            r == lastOp'.returns
        IN  /\ requestHistory' = requestHistory
            /\ now' = now
            /\ lastOp'.op = "getRemainingRequests" =>
                   /\ r = Max(0, config.maxRequests
                                  - Recorded(e, config.windowMs, now))
                   /\ r >= 0
                   /\ r = 0 <=> rejects
            /\ lastOp'.op = "getTimeUntilReset" =>
                   /\ r > 0 <=> rejects
                   /\ ~rejects => r = 0]_vars

\* a class at its maximum, its reset read as half a window away
C19_ResetReadWhileRejected ==
    /\ lastOp.op = "getTimeUntilReset"
    /\ lastOp.returns = 30000
    /\ lastCall.threw
    /\ lastCall.endpoint = lastOp.endpoint
    /\ lastCall.at = now

----------------------------------------------------------------------------
(* Properties of the requests made through the cache *)

\* the class under which the hooks of a query key ask for admission
ClassOf(k) == IF k[1] = "drug" THEN "drug-analysis" ELSE "diet"

\* this step calls the gateway for key k
GatewayInvoked(k) ==
    CallsOf(fetchFn', k).inFlight > CallsOf(fetchFn, k).inFlight

\* this step calls the query function of key k
QueryFnCalled(k) == CallsOf(fetchFn', k).calls > CallsOf(fetchFn, k).calls

\* this step records a request of the class, admitted now
AdmittedNow(endpoint) ==
    LET h == HistoryOf(requestHistory', endpoint) IN
    /\ h # HistoryOf(requestHistory, endpoint)
    /\ h # <<>>
    /\ h[Len(h)] = now

\* C20: every call of the gateway made through the cache, a prefetch
\* included, happens in a step in which checkRateLimit admitted a request
\* of its class, and a call of a query function that checkRateLimit rejects
\* does not reach the gateway
C20_GatewayCallsAdmittedFirst ==
    [][/\ \A k \in DOMAIN fetchFn' :
              GatewayInvoked(k) => AdmittedNow(ClassOf(k))
       /\ (mutation'.inFlight /\ ~mutation.inFlight) =>
              AdmittedNow(mutation'.hook.endpoint)
       /\ \A k \in DOMAIN fetchFn' :
              (/\ QueryFnCalled(k)
               /\ checkRateLimit(requestHistory, ClassOf(k), now).threw)
                  => ~GatewayInvoked(k)]_vars

----------------------------------------------------------------------------
(* Properties of a build without a key *)

\* C21: a fetch or a mutation that fails with the configuration error of
\* getModel is not retried: its function is called once for the request
C21_ConfigurationErrorNotRetried ==
    /\ \A k \in DOMAIN queries : queries[k].invocations <= 1
    /\ mutation.invocations <= 1

----------------------------------------------------------------------------
(* Properties of the cache keys *)

\* the key a lookup of the drug name in the language is cached under
DrugKey(q, l) == useDrugAnalysis(q, l).queryKey

\* the key the result of an analysis of the description is inserted under
SymptomKey(d, l) == useSymptomAnalysis(d, l).onSuccess

\* C24: the result of a symptom analysis is in the cache only once it has
\* succeeded, under the derived key; drug lookups that differ in letter
\* case only share a key and lookups in different languages do not; and
\* the key a result was inserted under is the key of no other description
C24_KeysIdentifyQueries ==
    /\ \A k \in DOMAIN queries :
          k[1] = "symptoms" =>
              /\ queries[k].status = "success"
              /\ queries[k].data > 0
              /\ \E d \in Descriptions, l \in Languages : k = SymptomKey(d, l)
    /\ \A q1, q2 \in Queries, l1, l2 \in Languages :
          DrugKey(q1, l1) = DrugKey(q2, l2)
              <=> (toLowerCase(q1) = toLowerCase(q2) /\ l1 = l2)
    /\ mutation.status = "success" =>
          \A d \in Descriptions, l \in Languages :
              SymptomKey(d, l) = mutation.hook.onSuccess =>
                  /\ d = mutation.hook.variables.symptoms
                  /\ l = mutation.hook.variables.language

----------------------------------------------------------------------------
(* What a call of checkRateLimit writes *)

\* this step is a call of checkRateLimit: the clock stands and nothing is
\* read for display
CalledNow == ticks' = ticks /\ lastOp' = lastOp

\* the timestamps of a history never decrease
NonDecreasing(history) ==
    \A i, j \in 1..Len(history) : i < j => history[i] <= history[j]

\* C27: a rejected checkRateLimit leaves the history of every class as it
\* was; an admitted one leaves in the history of its class the timestamps
\* still in the window followed by the current time, and the other classes
\* as they were; the history of a class never holds more than maxRequests
\* timestamps and is in non-decreasing order.
C27_HistoryWrittenOnAdmissionOnly ==
    [][/\ CalledNow /\ lastCall'.threw => requestHistory' = requestHistory
       /\ CalledNow /\ ~lastCall'.threw =>
             LET e == lastCall'.endpoint
                 kept == InWindow(HistoryOf(requestHistory, e),
                                  now - RATE_LIMITS(e).windowMs)
             IN  /\ HistoryOf(requestHistory', e) = Append(kept, now)
                 /\ \A c \in DOMAIN requestHistory' \ {e} :
                       /\ c \in DOMAIN requestHistory
                       /\ requestHistory'[c] = requestHistory[c]
       /\ \A c \in DOMAIN requestHistory' :
             /\ Len(requestHistory'[c]) <= RATE_LIMITS(c).maxRequests
             /\ NonDecreasing(requestHistory'[c])]_vars

\* a call was rejected while its class and another held timestamps, and the
\* class holds as many as it may
C27_RejectedAtFullHistory ==
    /\ lastCall.threw
    /\ Len(HistoryOf(requestHistory, lastCall.endpoint))
          = RATE_LIMITS(lastCall.endpoint).maxRequests
    /\ \E c \in DOMAIN requestHistory \ {lastCall.endpoint} :
          requestHistory[c] # <<>>
    /\ now >= 60000

----------------------------------------------------------------------------
(* The sliding window over two classes *)

WindowClasses == {"diet-plan", "second-opinion"}

\* the clock moves by 1 ms or to 1 ms before a window's length: two steps
\* make a window's length exactly
MaxWindowTicks == 2

NextWindow ==
    \/ \E d \in {1, 59999} :
           ticks < MaxWindowTicks /\ Tick(d) /\ UNCHANGED <<storeVars, cacheVars>>
    \/ \E e \in WindowClasses :
           CheckRateLimit(e) /\ UNCHANGED <<storeVars, cacheVars>>

SpecWindow == InitStore /\ [][NextWindow]_vars

\* the requests of a class admitted in the interval (t - windowMs, t]
AdmittedWithin(endpoint, t) ==
    LET a == HistoryOf(admitted, endpoint) IN
    { i \in 1..Len(a) :
        a[i] > t - RATE_LIMITS(endpoint).windowMs /\ a[i] <= t }

\* the instants at which the number admitted in the window can be largest:
\* the admission times (the number rises at no other instant) and now
Instants(endpoint) ==
    { HistoryOf(admitted, endpoint)[i] :
        i \in 1..Len(HistoryOf(admitted, endpoint)) } \cup {now}

\* C28: for every class and instant t the number of requests admitted in
\* (t - windowMs, t] is at most maxRequests; and a call is rejected only when
\* maxRequests requests were admitted in that interval before it, a request
\* admitted exactly windowMs before the call not being one of them.
C28_SlidingWindow ==
    /\ \A e \in DOMAIN admitted : \A t \in Instants(e) :
          Cardinality(AdmittedWithin(e, t)) <= RATE_LIMITS(e).maxRequests
    /\ lastCall.threw =>
          Cardinality(AdmittedWithin(lastCall.endpoint, lastCall.at))
              = RATE_LIMITS(lastCall.endpoint).maxRequests

\* a request was admitted one window's length after the first of a full
\* window, to the millisecond
C28_AdmittedOneWindowLater ==
    \E e \in DOMAIN admitted :
        LET a == admitted[e]
            n == RATE_LIMITS(e).maxRequests
        IN  /\ Len(a) > n
            /\ a[n + 1] = a[1] + RATE_LIMITS(e).windowMs
            /\ a[n] < a[n + 1]

----------------------------------------------------------------------------
(* Classes side by side: one of RATE_LIMITS and two names it does not have *)

OTHER_UNCONFIGURED == "import"

Unrecognized == {UNCONFIGURED, OTHER_UNCONFIGURED}

IsolationClasses == {"diet-plan"} \cup Unrecognized

\* the calls recorded at a time for a name under the default policy
MaxUnrecognized == 2

NextIsolation ==
    \/ Tick(30000) /\ UNCHANGED <<storeVars, cacheVars>>
    \/ Admit("diet-plan") /\ UNCHANGED <<storeVars, cacheVars>>
    \/ \E e \in Unrecognized :
           /\ Len(HistoryOf(requestHistory, e)) < MaxUnrecognized
           /\ Admit(e)
           /\ UNCHANGED <<storeVars, cacheVars>>

SpecIsolation == InitStore /\ [][NextIsolation]_vars

\* C29: a call of checkRateLimit for a class, admitted or rejected, changes
\* no entry of the map but that of its class, and for every other class,
\* those under the default policy included, the history, what
\* getRemainingRequests returns and whether a call would be admitted are
\* what they were before it.
C29_ClassesIsolated ==
    [][CalledNow =>
          LET e == lastCall'.endpoint IN
          /\ \A k \in (DOMAIN requestHistory' \cup DOMAIN requestHistory) \ {e} :
                HistoryOf(requestHistory', k) = HistoryOf(requestHistory, k)
          /\ \A c \in IsolationClasses \ {e} :
                /\ getRemainingRequests(requestHistory', c, now)
                      = getRemainingRequests(requestHistory, c, now)
                /\ checkRateLimit(requestHistory', c, now).threw
                      = checkRateLimit(requestHistory, c, now).threw]_vars

\* a name without a policy was admitted while the other such name and the
\* configured class, which is full, hold other histories
C29_UnrecognizedSideBySide ==
    /\ lastCall.endpoint = UNCONFIGURED
    /\ ~lastCall.threw
    /\ OTHER_UNCONFIGURED \in DOMAIN requestHistory
    /\ requestHistory[OTHER_UNCONFIGURED] # requestHistory[UNCONFIGURED]
    /\ getRemainingRequests(requestHistory, "diet-plan", now) = 0
    /\ getRemainingRequests(requestHistory, OTHER_UNCONFIGURED, now)
          # getRemainingRequests(requestHistory, UNCONFIGURED, now)

----------------------------------------------------------------------------
(* withRetry: a promise of fn awaited, a timer awaited, and so on          *)

\* the doubling left out
backoff_constant(delayMs) == delayMs

\* delayMs *= 2
backoff(delayMs) == delayMs * 2

\* fn() called: its promise not settled yet
Pending == [status |-> "pending", val |-> 0]

\* for (let attempt = 0; attempt <= maxRetries; attempt++), entered with
\* attempt: fn is called, or the loop is left and lastError thrown
Loop(r, attempt) ==
    IF attempt <= r.maxRetries
    THEN [r EXCEPT !.pc = "calling", !.attempt = attempt,
                   !.calls = Append(@, Pending)]
    ELSE [r EXCEPT !.pc = "threw", !.attempt = attempt,
                   !.result = r.lastError]

\* withRetry(fn, maxRetries, delayMs) is called
WithRetry(maxRetries, delayMs) ==
    /\ retrying.pc = "none"
    /\ retrying' = Loop([NoRetry EXCEPT
                             !.args = [maxRetries |-> maxRetries,
                                       delayMs |-> delayMs],
                             !.maxRetries = maxRetries,
                             !.delayMs = delayMs], 0)

\* the promise of fn resolves: return await fn()
FnResolves(value) ==
    /\ retrying.pc = "calling"
    /\ retrying' = [retrying EXCEPT
                       !.pc = "returned",
                       !.calls[Len(retrying.calls)] =
                           [status |-> "resolved", val |-> value],
                       !.result = value]

\* the promise of fn rejects: the catch block, up to the await of the timer
\* when there is one
FnRejects(error) ==
    /\ retrying.pc = "calling"
    /\ LET caught == [retrying EXCEPT
                         !.calls[Len(retrying.calls)] =
                             [status |-> "rejected", val |-> error],
                         !.lastError = error]
       IN  retrying' =
               IF retrying.attempt < retrying.maxRetries
               THEN [caught EXCEPT !.pc = "sleeping",
                                   !.waits = Append(@, retrying.delayMs)]
               ELSE Loop(caught, retrying.attempt + 1)

\* the timer fires: delayMs *= 2, attempt++, and the loop again
TimerFires ==
    /\ retrying.pc = "sleeping"
    /\ retrying' = Loop([retrying EXCEPT !.delayMs = backoff(@)],
                        retrying.attempt + 1)

MaxRetries == 3

RetryErrors == {1, 2}

RetryValues == {7}

RetryRest ==
    UNCHANGED <<storage, lastOp, nextId, imports, drugFresh, drugRepeats,
                tabs, rateVars, cacheVars>>

NextWithRetry ==
    \/ \E m \in -1..MaxRetries, d \in {0, 1000} : WithRetry(m, d) /\ RetryRest
    \/ \E v \in RetryValues : FnResolves(v) /\ RetryRest
    \/ \E e \in RetryErrors : FnRejects(e) /\ RetryRest
    \/ TimerFires /\ RetryRest

\* every promise of fn settles and every timer fires
SpecWithRetry == InitStore /\ [][NextWithRetry]_vars /\ WF_vars(NextWithRetry)

\* withRetry has returned or thrown
Finished == retrying.pc \in {"returned", "threw"}

\* what holds of a call of withRetry at every moment
WithRetryBounded ==
    LET r == retrying
        n == Len(r.calls)
    IN  r.pc # "none" =>
        /\ n <= Max(r.args.maxRetries + 1, 0)
        /\ \A i \in 1..(n - 1) : r.calls[i].status = "rejected"
        /\ Len(r.waits) <= Max(r.args.maxRetries, 0)
        /\ \A k \in 1..Len(r.waits) : r.waits[k] = r.args.delayMs * 2^(k - 1)
        /\ r.pc = "calling" =>
              r.calls[n].status = "pending" /\ Len(r.waits) = n - 1
        /\ r.pc = "sleeping" =>
              r.calls[n].status = "rejected" /\ Len(r.waits) = n
        /\ r.pc = "returned" =>
              /\ r.calls[n] = [status |-> "resolved", val |-> r.result]
              /\ Len(r.waits) = n - 1
        /\ r.pc = "threw" =>
              /\ n = Max(r.args.maxRetries + 1, 0)
              /\ n > 0 => r.calls[n] = [status |-> "rejected", val |-> r.result]
              /\ n > 0 => Len(r.waits) = n - 1
              /\ n = 0 => r.result = NullError

\* C30: when every promise of fn settles, withRetry(fn, maxRetries, delayMs)
\* returns or throws; fn is invoked at most maxRetries + 1 times and not
\* again after a success, whose value is returned; the wait before retry
\* k + 1 is delayMs * 2^k and there is none after the last attempt; when all
\* the attempts fail the error of the last one is thrown.
C30_WithRetryTerminates == []WithRetryBounded /\ <>Finished

\* three attempts failed with different errors, the waits doubled, and the
\* error of the third was thrown
C30_ThirdErrorThrown ==
    /\ retrying.pc = "threw"
    /\ retrying.args = [maxRetries |-> 2, delayMs |-> 1000]
    /\ Len(retrying.calls) = 3
    /\ retrying.waits = <<1000, 2000>>
    /\ retrying.calls[1].val # retrying.calls[3].val
    /\ retrying.result = retrying.calls[3].val

----------------------------------------------------------------------------
(* A snapshot taken, the store cleared, the snapshot imported *)

\* exportAllData(): what the getters return, as JSON.stringify writes it and
\* JSON.parse reads it back; a null healthProfile is falsy as a missing field
\* is. exportedAt is not read by importData.
exportAllData(s) ==
    Payload(IF getHealthProfile(s) = Null THEN Absent
            ELSE ObjectOf(ProfileToJSON(getHealthProfile(s))),
            ArrayOf(ListToJSON(getConsultations(s))),
            ArrayOf(getDrugHistory(s)),
            StringOf(getLanguage(s)))

\* what the four getters return
Readings(s) ==
    [healthProfile |-> getHealthProfile(s),
     consultations |-> getConsultations(s),
     drugHistory |-> getDrugHistory(s),
     language |-> getLanguage(s)]

\* const S = exportAllData()
ExportAllData ==
    /\ imports < MaxImports
    /\ lastOp.op \notin {"exportAllData", "clearAllData"}
    /\ lastOp' = [op |-> "exportAllData", ok |-> TRUE,
                  snapshot |-> exportAllData(storage),
                  before |-> Readings(storage)]
    /\ UNCHANGED <<storage, imports>>

\* clearAllData() next
ClearExported ==
    /\ lastOp.op = "exportAllData"
    /\ storage' = clearAllData(storage)
    /\ lastOp' = [lastOp EXCEPT !.op = "clearAllData"]
    /\ UNCHANGED imports

\* importData(S) next
ImportExported ==
    /\ lastOp.op = "clearAllData"
    /\ storage' = importData(storage, lastOp.snapshot).storage
    /\ lastOp' = [lastOp EXCEPT !.op = "importData",
                                !.ok = importData(storage, lastOp.snapshot).ok]
    /\ imports' = imports + 1

\* between the three calls nothing else runs
Restoring == lastOp.op \in {"exportAllData", "clearAllData"}

DrugNames == {Query(1, FALSE), Query(2, TRUE)}

RestoreRest ==
    UNCHANGED <<nextId, drugFresh, drugRepeats, tabs, retrying, rateVars,
                cacheVars>>

NextRestore ==
    \/ \E b \in BOOLEAN : ~Restoring /\ SetEncryptionEnabled(b) /\ Rest
    \/ \E p \in Profiles : ~Restoring /\ SaveHealthProfile(p) /\ Rest
    \/ ~Restoring /\ nextId <= MaxStored /\ SaveNewConsultation
    \/ \E l \in Languages : ~Restoring /\ SaveLanguage(l) /\ Rest
    \/ \E q \in DrugNames : ~Restoring /\ SaveDrugSearch(q) /\ Rest
    \/ ExportAllData /\ RestoreRest
    \/ ClearExported /\ RestoreRest
    \/ ImportExported /\ RestoreRest

SpecRestore == InitStore /\ [][NextRestore]_vars

\* the snapshot was imported into the cleared store
Restored == lastOp.op = "importData" /\ "snapshot" \in DOMAIN lastOp

\* C26: after S = exportAllData(), clearAllData() and importData(S), the
\* import has returned true, getConsultations() and getDrugHistory() return
\* the entries they returned before the export in the same order, and
\* getHealthProfile() and getLanguage() return the same values.
C26_ExportImportRestores ==
    Restored => /\ lastOp.ok
                /\ Readings(storage) = lastOp.before

----------------------------------------------------------------------------
(* Two tabs on one localStorage: saveConsultation is a read of the         *)
(* collection followed by a write of all of it, and nothing keeps the      *)
(* other tab from running between the two                                  *)

MaxTabSaves == 2

\* the entry a tab saves: generateId gives each a fresh identity
TabEntry(t) == Consultation(Cardinality(Tabs) * tabs[t].saves + t)

TabRest ==
    UNCHANGED <<nextId, imports, drugFresh, drugRepeats, retrying, rateVars,
                cacheVars>>

\* const consultations = getConsultations() in tab t
TabReads(t) ==
    /\ tabs[t].pc = "idle"
    /\ tabs[t].saves < MaxTabSaves
    /\ tabs' = [tabs EXCEPT ![t] = [@ EXCEPT !.pc = "read",
                                    !.consultations = getConsultations(storage),
                                    !.missed = <<>>]]
    /\ UNCHANGED <<storage, lastOp>>

\* the rest of saveConsultation in tab t; the entry is one more that every
\* tab still between its read and its write has not seen
TabWrites(t) ==
    /\ tabs[t].pc = "read"
    /\ storage' = writeConsultations(storage, tabs[t].consultations, TabEntry(t))
    /\ tabs' = [u \in Tabs |->
                  IF u = t
                  THEN [tabs[t] EXCEPT !.pc = "idle", !.saves = @ + 1]
                  ELSE IF tabs[u].pc = "read"
                       THEN [tabs[u] EXCEPT !.missed = Append(@, TabEntry(t))]
                       ELSE tabs[u]]
    /\ lastOp' = [op |-> "writeConsultations", ok |-> TRUE, tab |-> t,
                  read |-> tabs[t].consultations,
                  consultation |-> TabEntry(t),
                  missed |-> tabs[t].missed]

NextTabs ==
    \/ \E t \in Tabs : TabReads(t) /\ TabRest
    \/ \E t \in Tabs : TabWrites(t) /\ TabRest

SpecTabs == InitSetting /\ [][NextTabs]_vars

\* C25: whatever the interleaving of two tabs saving a consultation, the
\* stored collection after a write is the blob of the tab that wrote last,
\* its entry before what it had read; the entries other tabs wrote between
\* its read and its write are not in it.
C25_LastWriterWins ==
    lastOp.op = "writeConsultations" =>
        LET stored == getConsultations(storage) IN
        /\ stored = SliceHead(<<lastOp.consultation>> \o lastOp.read,
                              MaxConsultations)
        /\ \A i \in 1..Len(lastOp.missed) : \A j \in 1..Len(stored) :
              stored[j].id # lastOp.missed[i].id

\* both tabs read before either wrote, and the second has now written
C25_FirstWriterLost ==
    /\ lastOp.op = "writeConsultations"
    /\ lastOp.missed # <<>>
    /\ \A j \in 1..Len(getConsultations(storage)) :
          getConsultations(storage)[j].id # lastOp.missed[1].id

====
